---- MODULE Spec2Model ----
(***************************************************************************)
(* Edge-detection and position-sizing pipeline of the trading assistant:   *)
(* Market (api_client.py), apply_sanity_caps / EdgeDetector.analyze_edge   *)
(* (edge_model.py) and PositionSizer.calculate_position                    *)
(* (position_sizing.py).                                                   *)
(*                                                                         *)
(* Number representation.  The code computes in floats; the model computes *)
(* the same expressions exactly:                                           *)
(*   - a probability or price is an integer number of hundredths           *)
(*     (0.60 is 60, 1.0 is 100, a percentage input 70.0 is 7000);          *)
(*   - an edge is an integer number of percentage points;                  *)
(*   - money is an integer number of cents;                                *)
(*   - every quotient (ROI, odds, Kelly, position size) is an exact        *)
(*     rational <<numerator, denominator>> in lowest terms.                *)
(* An Optional value is a sequence: <<>> is None, <<v>> is the value v.    *)
(* A string that the code searches is a sequence of characters.            *)
(***************************************************************************)
EXTENDS Integers, Sequences, FiniteSets, TLC

\* ------------------------------------------------------------------------
\* Optional values
\* ------------------------------------------------------------------------
None == <<>>

Some(v) == <<v>>

\* Python's `x or d` for an Optional[int]: None and 0 are both falsy.
PyOr(x, d) == IF x = None THEN d ELSE IF x[1] = 0 THEN d ELSE x[1]

\* ------------------------------------------------------------------------
\* Exact arithmetic standing for the float expressions of the code
\* ------------------------------------------------------------------------
Abs(x) == IF x < 0 THEN -x ELSE x

Max(a, b) == IF a >= b THEN a ELSE b

Min(a, b) == IF a <= b THEN a ELSE b

RECURSIVE Gcd(_, _)
Gcd(a, b) == IF b = 0 THEN a ELSE Gcd(b, a % b)

\* What a float division by zero leaves: Python raises ZeroDivisionError.
\* The value absorbs the arithmetic done on it (its denominator stays 0).
ZeroDivisionError == <<1, 0>>

\* The rational n/d in lowest terms with a positive denominator;
\* ZeroDivisionError for d = 0.
Rat(n, d) ==
  LET g == Gcd(Abs(n), Abs(d))
      s == IF d < 0 THEN -1 ELSE 1
  IN  IF d = 0 THEN ZeroDivisionError
      ELSE IF n = 0 THEN <<0, 1>>
      ELSE <<s * (n \div g), (s * d) \div g>>

RInt(k) == <<k, 1>>

RAdd(a, b) == Rat(a[1] * b[2] + b[1] * a[2], a[2] * b[2])

RSub(a, b) == Rat(a[1] * b[2] - b[1] * a[2], a[2] * b[2])

RMul(a, b) == Rat(a[1] * b[1], a[2] * b[2])

RDiv(a, b) == Rat(a[1] * b[2], a[2] * b[1])

RLt(a, b) == a[1] * b[2] < b[1] * a[2]

RLe(a, b) == a[1] * b[2] <= b[1] * a[2]

RMax(a, b) == IF RLt(a, b) THEN b ELSE a

RMin(a, b) == IF RLt(b, a) THEN b ELSE a

\* Python round(x, k): x scaled by 10^k (scale) to the nearest integer, ties to even.
PyRound(x, scale) ==
  LET n == x[1] * scale
      d == x[2]
      q == n \div d
      r == n % d
  IN  IF 2 * r < d THEN q
      ELSE IF 2 * r > d THEN q + 1
      ELSE IF q % 2 = 0 THEN q ELSE q + 1

\* ------------------------------------------------------------------------
\* Strings: str.lower() and the substring test `k in s`
\* ------------------------------------------------------------------------
LowerMap ==
  ("A" :> "a") @@ ("B" :> "b") @@ ("C" :> "c") @@ ("D" :> "d") @@ ("E" :> "e") @@ ("F" :> "f") @@ ("G" :> "g") @@ ("H" :> "h") @@ ("I" :> "i") @@ ("J" :> "j") @@ ("K" :> "k") @@ ("L" :> "l") @@ ("M" :> "m") @@ ("N" :> "n") @@ ("O" :> "o") @@ ("P" :> "p") @@ ("Q" :> "q") @@ ("R" :> "r") @@ ("S" :> "s") @@ ("T" :> "t") @@ ("U" :> "u") @@ ("V" :> "v") @@ ("W" :> "w") @@ ("X" :> "x") @@ ("Y" :> "y") @@ ("Z" :> "z")

Lower(s) == [i \in 1..Len(s) |-> IF s[i] \in DOMAIN LowerMap THEN LowerMap[s[i]] ELSE s[i]]

Contains(s, k) ==
  \E i \in 1..(Len(s) - Len(k) + 1) : \A j \in 1..Len(k) : s[i + j - 1] = k[j]

SPORTS_KEYWORDS ==
  << <<"s","u","p","e","r"," ","b","o","w","l">>,
     <<"w","o","r","l","d"," ","s","e","r","i","e","s">>,
     <<"w","o","r","l","d"," ","c","u","p">>,
     <<"s","t","a","n","l","e","y"," ","c","u","p">>,
     <<"n","b","a"," ","f","i","n","a","l","s">>,
     <<"c","h","a","m","p","i","o","n","s","h","i","p">>,
     <<"c","h","a","m","p","i","o","n">>,
     <<"p","l","a","y","o","f","f","s">>,
     <<"w","i","n"," ","t","h","e">>,
     <<"n","f","l">>,
     <<"n","b","a">>,
     <<"m","l","b">>,
     <<"n","h","l">>,
     <<"m","l","s">>,
     <<"p","r","e","m","i","e","r"," ","l","e","a","g","u","e">>,
     <<"l","a"," ","l","i","g","a">>,
     <<"m","v","p">>,
     <<"p","l","a","y","e","r"," ","p","r","o","p">>,
     <<"s","c","o","r","e">>,
     <<"t","o","u","c","h","d","o","w","n">>,
     <<"h","o","m","e"," ","r","u","n">>,
     <<"g","o","a","l">>,
     <<"v","s">>,
     <<"v","e","r","s","u","s">>,
     <<"b","e","a","t">>,
     <<"d","e","f","e","a","t">>,
     <<"4","9","e","r","s">>,
     <<"b","e","a","r","s">>,
     <<"b","e","n","g","a","l","s">>,
     <<"b","i","l","l","s">>,
     <<"b","r","o","n","c","o","s">>,
     <<"b","r","o","w","n","s">>,
     <<"b","u","c","c","a","n","e","e","r","s">>,
     <<"c","a","r","d","i","n","a","l","s">>,
     <<"c","h","a","r","g","e","r","s">>,
     <<"c","h","i","e","f","s">>,
     <<"c","o","l","t","s">>,
     <<"c","o","m","m","a","n","d","e","r","s">>,
     <<"c","o","w","b","o","y","s">>,
     <<"d","o","l","p","h","i","n","s">>,
     <<"e","a","g","l","e","s">>,
     <<"f","a","l","c","o","n","s">>,
     <<"g","i","a","n","t","s">>,
     <<"j","a","g","u","a","r","s">>,
     <<"j","e","t","s">>,
     <<"l","i","o","n","s">>,
     <<"p","a","c","k","e","r","s">>,
     <<"p","a","n","t","h","e","r","s">>,
     <<"p","a","t","r","i","o","t","s">>,
     <<"r","a","i","d","e","r","s">>,
     <<"r","a","m","s">>,
     <<"r","a","v","e","n","s">>,
     <<"s","a","i","n","t","s">>,
     <<"s","e","a","h","a","w","k","s">>,
     <<"s","t","e","e","l","e","r","s">>,
     <<"t","e","x","a","n","s">>,
     <<"t","i","t","a","n","s">>,
     <<"v","i","k","i","n","g","s">> >>

\* "Fed cut in May?"
Q_FED == <<"F","e","d"," ","c","u","t"," ","i","n"," ","M","a","y","?">>

\* "Will X win the vote?"
Q_VOTE == <<"W","i","l","l"," ","X"," ","w","i","n"," ","t","h","e"," ","v","o","t","e","?">>

\* "Chiefs Super Bowl?"
Q_SB == <<"C","h","i","e","f","s"," ","S","u","p","e","r"," ","B","o","w","l","?">>

\* "NCAA Championship?"
Q_CH == <<"N","C","A","A"," ","C","h","a","m","p","i","o","n","s","h","i","p","?">>

Questions == {Q_FED, Q_VOTE, Q_SB, Q_CH}

\* ------------------------------------------------------------------------
\* Sports detection (edge_model.py)
\* ------------------------------------------------------------------------
is_sports_market(question) ==
  LET q_lower == Lower(question)
  IN  \E i \in DOMAIN SPORTS_KEYWORDS : Contains(q_lower, SPORTS_KEYWORDS[i])

is_super_bowl_market(question) ==
  Contains(Lower(question), <<"s","u","p","e","r"," ","b","o","w","l">>)

\* `is_super_bowl_market(question) or "championship" in question.lower()`
is_championship_market(question) ==
  \/ is_super_bowl_market(question)
  \/ Contains(Lower(question), <<"c","h","a","m","p","i","o","n","s","h","i","p">>)

\* ------------------------------------------------------------------------
\* Sanity caps (edge_model.py).  Each rule maps the current
\* <<model_prob, reason>> to the next one.
\* ------------------------------------------------------------------------
REASON_HIGH_VOL == "Capped (high-vol market, max 20% deviation)"
REASON_SPORTS_LONGSHOT == "Sports cap (championship market)"
REASON_SPORTS_MAX == "Sports cap (max +10% over market)"
REASON_EXTREME == "Extreme price cap"

\* Mutant of CapRule1: the lower clamp is missing.
CapRule1_UpperOnly(cur, market_prob, total_volume) ==
  IF total_volume > 100000
  THEN LET max_allowed == Min(99, market_prob + 20)
       IN  IF cur[1] > max_allowed THEN <<max_allowed, REASON_HIGH_VOL>> ELSE cur
  ELSE cur

\* Mutant of CapRule1: a deviation of 40 points is allowed.
CapRule1_WideDeviation(cur, market_prob, total_volume) ==
  IF total_volume > 100000
  THEN LET min_allowed == Max(1, market_prob - 40)
           max_allowed == Min(99, market_prob + 40)
       IN  IF cur[1] < min_allowed THEN <<min_allowed, REASON_HIGH_VOL>>
           ELSE IF cur[1] > max_allowed THEN <<max_allowed, REASON_HIGH_VOL>>
           ELSE cur
  ELSE cur

\* Rule 1: high volume markets - max 20% deviation from market
CapRule1(cur, market_prob, total_volume) ==
  IF total_volume > 100000
  THEN LET max_deviation == 20
           min_allowed == Max(1, market_prob - max_deviation)
           max_allowed == Min(99, market_prob + max_deviation)
       IN  IF cur[1] < min_allowed THEN <<min_allowed, REASON_HIGH_VOL>>
           ELSE IF cur[1] > max_allowed THEN <<max_allowed, REASON_HIGH_VOL>>
           ELSE cur
  ELSE cur

\* Mutant of CapRule2: only the longshot branch, the +10% clamp is missing.
CapRule2_LongshotOnly(cur, market_prob, question) ==
  IF is_sports_market(question) /\ is_championship_market(question)
  THEN IF market_prob < 40 /\ cur[1] > 50
       THEN <<Min(50, market_prob + 10), REASON_SPORTS_LONGSHOT>>
       ELSE cur
  ELSE cur

\* Rule 2: sports championship markets - max +10%, never >50% on longshots
CapRule2(cur, market_prob, question) ==
  IF is_sports_market(question) /\ is_championship_market(question)
  THEN LET max_deviation == 10
           max_allowed == Min(99, market_prob + max_deviation)
       IN  IF market_prob < 40 /\ cur[1] > 50
           THEN <<Min(50, market_prob + max_deviation), REASON_SPORTS_LONGSHOT>>
           ELSE IF cur[1] > max_allowed THEN <<max_allowed, REASON_SPORTS_MAX>>
           ELSE cur
  ELSE cur

\* Mutant of CapRule3: the rule looks at the model probability, not the price.
CapRule3_OnModelProb(cur, market_prob) ==
  IF cur[1] < 5 \/ cur[1] > 95
  THEN LET min_allowed == Max(1, market_prob - 5)
           max_allowed == Min(99, market_prob + 5)
       IN  IF cur[1] < min_allowed \/ cur[1] > max_allowed
           THEN <<Max(min_allowed, Min(max_allowed, cur[1])), REASON_EXTREME>>
           ELSE cur
  ELSE cur

\* Rule 3: extreme prices (<5c or >95c) - model within 5%
CapRule3(cur, market_prob) ==
  IF market_prob < 5 \/ market_prob > 95
  THEN LET max_deviation == 5
           min_allowed == Max(1, market_prob - max_deviation)
           max_allowed == Min(99, market_prob + max_deviation)
       IN  IF cur[1] < min_allowed \/ cur[1] > max_allowed
           THEN <<Max(min_allowed, Min(max_allowed, cur[1])), REASON_EXTREME>>
           ELSE cur
  ELSE cur

\* Returns <<capped_probability, reason_if_capped>>; reason "" when no rule acted.
apply_sanity_caps(model_prob, market_prob, total_volume, question) ==
  LET r1 == CapRule1(<<model_prob, "">>, market_prob, total_volume)
      r2 == CapRule2(r1, market_prob, question)
      r3 == CapRule3(r2, market_prob)
  IN  r3

\* ------------------------------------------------------------------------
\* Market (api_client.py): [question, outcome_prices, volume, end_date]
\* ------------------------------------------------------------------------
yes_price(market) ==
  IF Len(market.outcome_prices) > 0 THEN market.outcome_prices[1] ELSE 0

no_price(market) ==
  IF Len(market.outcome_prices) > 1 THEN market.outcome_prices[2] ELSE 0

\* Whole days from the clock reading `at` to end_date, never negative; None
\* without an end date.
DaysAt(market, at) ==
  IF market.end_date # None
  THEN Some(Max(0, market.end_date[1] - at))
  ELSE None

\* ------------------------------------------------------------------------
\* EdgeConfig (edge_model.py)
\* ------------------------------------------------------------------------
EdgeConfig ==
  [ min_edge_percent     |-> 5,
    min_edge_short_term  |-> 8,
    min_edge_sports      |-> 15,
    short_term_days      |-> 14,
    expected_slippage    |-> 1,
    min_roi_short_term   |-> 10,
    relaxed_mode         |-> FALSE,
    limit_order_discount |-> 2,
    apply_sanity_caps    |-> TRUE,
    max_edge_high_volume |-> 30 ]

get_relaxed_edge_config == [EdgeConfig EXCEPT !.relaxed_mode = TRUE]

BUY_YES == "BUY_YES"
BUY_NO == "BUY_NO"
NO_TRADE == "NO_TRADE"

REASON_SUPER_BOWL == "Sports miscalibration guardrail triggered (Super Bowl)"
REASON_IMPLAUSIBLE == "Implausible edge in high-volume market"
REASON_NONE == "No significant edge detected"
REASON_YES_ROI == "YES edge but ROI below the short-term minimum"
REASON_NO_ROI == "NO edge but ROI below the short-term minimum"
REASON_YES == "YES undervalued"
REASON_NO == "NO undervalued"
REASON_TOO_SMALL == "Edge too small"
REASON_FAIR == "Market fairly priced (model = market)"

\* ------------------------------------------------------------------------
\* EdgeDetector.analyze_edge (edge_model.py).  `at` is the clock reading
\* that Market.days_to_resolution takes during the call.
\* ------------------------------------------------------------------------
\* `if p > 1: p = p / 100`
NormalizeProb(p) == IF p > 100 THEN p \div 100 ELSE p

\* Mutant of SideRoi: the `if market > 0 else 0` guard is missing.
SideRoi_Unguarded(model_prob, market_price) ==
  RMul(RDiv(RInt(model_prob - market_price), RInt(market_price)), RInt(100))

\* `(model - market) / market * 100 if market > 0 else 0`
SideRoi(model_prob, market_price) ==
  IF market_price > 0
  THEN RMul(RDiv(RInt(model_prob - market_price), RInt(market_price)), RInt(100))
  ELSE RInt(0)

\* Base threshold for the market
RequiredEdge(config, is_sports, is_short_term) ==
  IF is_sports THEN config.min_edge_sports
  ELSE IF is_short_term THEN config.min_edge_short_term
  ELSE config.min_edge_percent

\* Mutant of ConfidenceOf: no downgrade for sports markets.
ConfidenceOf_NoDowngrade(best_edge, is_sports) ==
  IF best_edge >= 15 THEN "high"
  ELSE IF best_edge >= 10 THEN "medium"
  ELSE "low"

\* Confidence level from the size of the selected edge, downgraded to "low"
\* on sports markets
ConfidenceOf(best_edge, is_sports) ==
  LET confidence == IF best_edge >= 15 THEN "high"
                    ELSE IF best_edge >= 10 THEN "medium"
                    ELSE "low"
  IN  IF is_sports /\ confidence # "low" THEN "low" ELSE confidence

\* Mutant of ImplausibleEdge: only the YES edge is looked at.
ImplausibleEdge_YesOnly(config, total_volume, yes_edge, no_edge) ==
  total_volume > 500000 /\ yes_edge > config.max_edge_high_volume

\* High-volume market validation: `total_volume > 500_000` and
\* `max(yes_edge, no_edge) > max_believable_edge`
ImplausibleEdge(config, total_volume, yes_edge, no_edge) ==
  total_volume > 500000 /\ Max(yes_edge, no_edge) > config.max_edge_high_volume

analyze_edge(config, market, model_yes_prob_arg, model_no_prob_arg, at) ==
  LET yes0 == NormalizeProb(model_yes_prob_arg)
      no0 == IF model_no_prob_arg = None THEN 100 - yes0
             ELSE NormalizeProb(model_no_prob_arg[1])
      market_yes == yes_price(market)
      market_no == no_price(market)
      is_sports == is_sports_market(market.question)
      is_super_bowl == is_super_bowl_market(market.question)
      total_volume == market.volume
      capped == IF config.apply_sanity_caps
                THEN apply_sanity_caps(yes0, market_yes, total_volume, market.question)
                ELSE <<yes0, "">>
      cap_reason == capped[2]
      was_capped == cap_reason # ""
      model_yes_prob == capped[1]
      model_no_prob == IF was_capped THEN 100 - model_yes_prob ELSE no0
      yes_edge == model_yes_prob - market_yes
      no_edge == model_no_prob - market_no
      days == PyOr(DaysAt(market, at), 999)
      is_short_term == days < config.short_term_days
      required_edge == RequiredEdge(config, is_sports, is_short_term)
      effective_yes_edge == yes_edge - config.expected_slippage
      effective_no_edge == no_edge - config.expected_slippage
      yes_roi == SideRoi(model_yes_prob, market_yes)
      no_roi == SideRoi(model_no_prob, market_no)
      base == [ market |-> market,
                model_yes_prob |-> model_yes_prob,
                model_no_prob |-> model_no_prob,
                market_yes_price |-> market_yes,
                market_no_price |-> market_no,
                yes_edge |-> yes_edge,
                no_edge |-> no_edge,
                recommended_action |-> NO_TRADE,
                edge_percent |-> 0,
                meets_threshold |-> FALSE,
                reason |-> REASON_NONE,
                target_price |-> 0,
                potential_roi |-> RInt(0),
                confidence |-> ConfidenceOf(0, is_sports),
                is_sports |-> is_sports,
                was_capped |-> was_capped,
                cap_reason |-> cap_reason,
                warning |-> IF is_sports
                            THEN "Sports market - higher risk of miscalibration"
                            ELSE "" ]
  IN  IF is_super_bowl /\ Abs(model_yes_prob - market_yes) > 20
      THEN \* Super Bowl guardrail
           [base EXCEPT !.yes_edge = 0, !.no_edge = 0,
                        !.reason = REASON_SUPER_BOWL,
                        !.confidence = "low",
                        !.is_sports = TRUE,
                        !.was_capped = TRUE,
                        !.cap_reason = "Super Bowl market - automatic skip",
                        !.warning = "Sports markets have high miscalibration risk"]
      ELSE IF ImplausibleEdge(config, total_volume, yes_edge, no_edge)
      THEN \* High-volume market validation
           [base EXCEPT !.reason = REASON_IMPLAUSIBLE,
                        !.confidence = "low",
                        !.warning = "High-volume markets are efficiently priced"]
      ELSE IF effective_yes_edge >= required_edge /\ effective_yes_edge > effective_no_edge
      THEN IF is_short_term /\ RLt(yes_roi, RInt(config.min_roi_short_term))
           THEN [base EXCEPT !.reason = REASON_YES_ROI]
           ELSE [base EXCEPT !.recommended_action = BUY_YES,
                             !.edge_percent = effective_yes_edge,
                             !.meets_threshold = TRUE,
                             !.potential_roi = yes_roi,
                             !.target_price = market_yes * (100 - config.limit_order_discount),
                             !.reason = REASON_YES,
                             !.confidence = ConfidenceOf(effective_yes_edge, is_sports)]
      ELSE IF effective_no_edge >= required_edge /\ effective_no_edge > effective_yes_edge
      THEN IF is_short_term /\ RLt(no_roi, RInt(config.min_roi_short_term))
           THEN [base EXCEPT !.reason = REASON_NO_ROI]
           ELSE [base EXCEPT !.recommended_action = BUY_NO,
                             !.edge_percent = effective_no_edge,
                             !.meets_threshold = TRUE,
                             !.potential_roi = no_roi,
                             !.target_price = market_no * (100 - config.limit_order_discount),
                             !.reason = REASON_NO,
                             !.confidence = ConfidenceOf(effective_no_edge, is_sports)]
      ELSE IF Max(effective_yes_edge, effective_no_edge) > 0
      THEN [base EXCEPT !.reason = REASON_TOO_SMALL]
      ELSE [base EXCEPT !.reason = REASON_FAIR]

\* ------------------------------------------------------------------------
\* PositionSizer (position_sizing.py).  bankroll, deployed_capital and
\* min_position_usd are in cents; the percentages of PositionConfig are
\* whole percents; a PositionRecommendation holds position_percent in
\* hundredths of a percent, position_usd in cents and expected_roi in tenths
\* of a percent (the values after round(., 2), round(., 2) and round(., 1)).
\* ------------------------------------------------------------------------
PositionConfig ==
  [ max_position_percent     |-> 2,
    max_short_term_percent   |-> 1,
    short_term_days          |-> 14,
    max_concurrent_positions |-> 5,
    max_deployed_capital     |-> 20,
    min_position_usd         |-> 100,
    kelly_fraction           |-> <<1, 4>> ]

\* improved_trader.py: the configuration built for a bankroll under $50
SmallBankrollConfig ==
  [PositionConfig EXCEPT !.max_position_percent = 5,
                         !.max_short_term_percent = 5,
                         !.min_position_usd = 50]

Dollars(cents) == Rat(cents, 100)

Unit(prob) == Rat(prob, 100)

REASON_MAX_POSITIONS == "Max positions reached"
REASON_MAX_CAPITAL == "Max capital deployed"
REASON_TOO_SMALL_POSITION == "Position too small"
REASON_EDGE_DETECTED == "Edge detected"

Rejected(analysis, reason, risk_level) ==
  [ should_trade |-> FALSE,
    position_percent |-> 0,
    position_usd |-> 0,
    reason |-> reason,
    edge_percent |-> analysis.edge_percent,
    expected_roi |-> 0,
    risk_level |-> risk_level ]

\* `(deployed_capital / bankroll) * 100 if bankroll > 0 else 100`
DeployedPercent(sizer) ==
  IF sizer.bankroll > 0
  THEN RMul(RDiv(Dollars(sizer.deployed_capital), Dollars(sizer.bankroll)), RInt(100))
  ELSE RInt(100)

\* Mutant of PortfolioGate: both limits compared strictly.
PortfolioGate_Strict(sizer) ==
  IF sizer.current_positions > sizer.config.max_concurrent_positions
  THEN REASON_MAX_POSITIONS
  ELSE IF RLt(RInt(sizer.config.max_deployed_capital), DeployedPercent(sizer))
  THEN REASON_MAX_CAPITAL
  ELSE ""

\* Portfolio limits: the reason of the gate that rejects, "" when none does.
PortfolioGate(sizer) ==
  IF sizer.current_positions >= sizer.config.max_concurrent_positions
  THEN REASON_MAX_POSITIONS
  ELSE IF RLe(RInt(sizer.config.max_deployed_capital), DeployedPercent(sizer))
  THEN REASON_MAX_CAPITAL
  ELSE ""

\* Max position (percent) by time to resolution
MaxPosition(config, market, at) ==
  LET days == PyOr(DaysAt(market, at), 999)
  IN  IF days < config.short_term_days
      THEN config.max_short_term_percent
      ELSE config.max_position_percent

RiskLevel(config, market, at) ==
  LET days == PyOr(DaysAt(market, at), 999)
  IN  IF days < config.short_term_days THEN "HIGH (short-term)" ELSE "MODERATE"

\* `(1 / price) - 1 if price > 0 else 0`
Odds(price) ==
  IF price > 0 THEN RSub(RDiv(RInt(1), Unit(price)), RInt(1)) ELSE RInt(0)

\* Dampened Kelly position in percent
KellyPercent(config, analysis) ==
  LET yes == analysis.recommended_action = BUY_YES
      win_prob == Unit(IF yes THEN analysis.model_yes_prob ELSE analysis.model_no_prob)
      odds == Odds(IF yes THEN analysis.market_yes_price ELSE analysis.market_no_price)
  IN  IF RLt(RInt(0), odds)
      THEN LET kelly == RDiv(RSub(RMul(win_prob, odds), RSub(RInt(1), win_prob)), odds)
               dampened == RMul(RMax(RInt(0), kelly), config.kelly_fraction)
           IN  RMul(dampened, RInt(100))
      ELSE RInt(0)

\* Minimum of Kelly and max position (percent, before rounding)
PositionPercent(sizer, analysis, at) ==
  RMin(KellyPercent(sizer.config, analysis),
       RInt(MaxPosition(sizer.config, analysis.market, at)))

\* `(position_percent / 100) * bankroll` (dollars, before rounding)
PositionUsd(sizer, analysis, at) ==
  RMul(RDiv(PositionPercent(sizer, analysis, at), RInt(100)), Dollars(sizer.bankroll))

\* Mutant of BelowMinimum: the position percent is compared, not the dollars.
BelowMinimum_Percent(sizer, position_usd) ==
  RLt(RDiv(RMul(position_usd, RInt(100)), Dollars(sizer.bankroll)),
      Dollars(sizer.config.min_position_usd))

\* `position_usd < min_position_usd`
BelowMinimum(sizer, position_usd) ==
  RLt(position_usd, Dollars(sizer.config.min_position_usd))

ExpectedRoi(analysis) ==
  LET yes == analysis.recommended_action = BUY_YES
      entry_price == Unit(IF yes THEN analysis.market_yes_price ELSE analysis.market_no_price)
      expected_payout == Unit(IF yes THEN analysis.model_yes_prob ELSE analysis.model_no_prob)
  IN  IF RLt(RInt(0), entry_price)
      THEN RMul(RDiv(RSub(expected_payout, entry_price), entry_price), RInt(100))
      ELSE RInt(0)

calculate_position(sizer, analysis, at) ==
  IF ~analysis.meets_threshold
  THEN Rejected(analysis, analysis.reason, "N/A")
  ELSE IF PortfolioGate(sizer) # ""
  THEN Rejected(analysis, PortfolioGate(sizer), "N/A")
  ELSE LET risk_level == RiskLevel(sizer.config, analysis.market, at)
           position_percent == PositionPercent(sizer, analysis, at)
           position_usd == PositionUsd(sizer, analysis, at)
       IN  IF BelowMinimum(sizer, position_usd)
           THEN Rejected(analysis, REASON_TOO_SMALL_POSITION, risk_level)
           ELSE [ should_trade |-> TRUE,
                  position_percent |-> PyRound(position_percent, 100),
                  position_usd |-> PyRound(position_usd, 100),
                  reason |-> REASON_EDGE_DETECTED,
                  edge_percent |-> analysis.edge_percent,
                  expected_roi |-> PyRound(ExpectedRoi(analysis), 10),
                  risk_level |-> risk_level ]

\* ------------------------------------------------------------------------
\* BracketStrategyGenerator (bracket_strategy.py).  A BracketMarket is
\* [bracket_label, lower_bound, upper_bound, yes_price, no_price, model_prob,
\* recommended_action, edge_percent]: bounds and model_prob are Optional,
\* recommended_action is None, "BUY_YES" or "BUY_NO", prices and
\* probabilities are in hundredths, edges in percentage points.  Dollar
\* amounts of a strategy are whole dollars ($100 per leg).
\* ------------------------------------------------------------------------
\* BracketMarket(...) as group_related_markets constructs it.
BracketMarket(label, lower, upper, yes, no) ==
  [ bracket_label |-> label,
    lower_bound |-> lower,
    upper_bound |-> upper,
    yes_price |-> yes,
    no_price |-> no,
    model_prob |-> None,
    recommended_action |-> None,
    edge_percent |-> 0 ]

\* float('inf') among bounds that are all below it; -Infinity is float('-inf').
Infinity == 1000000

\* `b.lower_bound or float('-inf')`, `b.upper_bound or float('inf')`
SortKey(b) == <<PyOr(b.lower_bound, -Infinity), PyOr(b.upper_bound, Infinity)>>

\* Tuple comparison key(a) < key(b)
KeyLess(a, b) ==
  \/ SortKey(a)[1] < SortKey(b)[1]
  \/ SortKey(a)[1] = SortKey(b)[1] /\ SortKey(a)[2] < SortKey(b)[2]

\* Stable insertion of b into a sorted sequence: after every element whose
\* key is not greater.
RECURSIVE InsertSorted(_, _)
InsertSorted(b, s) ==
  IF s = <<>> THEN <<b>>
  ELSE IF KeyLess(b, s[1]) THEN <<b>> \o s
  ELSE <<s[1]>> \o InsertSorted(b, Tail(s))

\* sorted(brackets, key=...): stable, ascending.
RECURSIVE SortedBrackets(_)
SortedBrackets(brackets) ==
  IF brackets = <<>> THEN <<>>
  ELSE InsertSorted(brackets[Len(brackets)],
                    SortedBrackets(SubSeq(brackets, 1, Len(brackets) - 1)))

\* `model_forecast[label] if model_forecast and label in model_forecast
\* else bracket.yes_price`; a forecast is a function from labels to
\* probabilities (None or an empty dict: the empty function).
BracketModelProb(bracket, model_forecast) ==
  IF bracket.bracket_label \in DOMAIN model_forecast
  THEN model_forecast[bracket.bracket_label]
  ELSE bracket.yes_price

BracketYesEdge(bracket, model_prob) == model_prob - bracket.yes_price

BracketNoEdge(bracket, model_prob) == (100 - model_prob) - bracket.no_price

\* Minimum edge threshold
min_edge == 5

\* `if yes_edge >= min_edge: ... elif no_edge >= min_edge: ...`
BracketAction(bracket, model_prob) ==
  IF BracketYesEdge(bracket, model_prob) >= min_edge THEN Some("BUY_YES")
  ELSE IF BracketNoEdge(bracket, model_prob) >= min_edge THEN Some("BUY_NO")
  ELSE None

\* Mutant of TradeCost: the YES price is charged on either side.
TradeCost_YesPrice(bracket, action) == bracket.yes_price

\* `cost = price * 100` of a $100 leg, in dollars
TradeCost(bracket, action) ==
  IF action = "BUY_YES" THEN bracket.yes_price ELSE bracket.no_price

\* The bracket as the loop body leaves it: model_prob always assigned,
\* recommended_action and edge_percent only when a side qualifies.
AnalyzedBracket(bracket, model_forecast) ==
  LET model_prob == BracketModelProb(bracket, model_forecast)
      action == BracketAction(bracket, model_prob)
  IN  IF action = None
      THEN [bracket EXCEPT !.model_prob = Some(model_prob)]
      ELSE [bracket EXCEPT !.model_prob = Some(model_prob),
                           !.recommended_action = action,
                           !.edge_percent =
                             IF action[1] = "BUY_YES"
                             THEN BracketYesEdge(bracket, model_prob)
                             ELSE BracketNoEdge(bracket, model_prob)]

\* The dict appended to recommended_trades for a bracket that qualifies;
\* 'bracket' refers to the bracket by its label.
TradeOf(bracket, model_forecast) ==
  LET model_prob == BracketModelProb(bracket, model_forecast)
      action == BracketAction(bracket, model_prob)[1]
  IN  [ bracket |-> bracket.bracket_label,
        action |-> action,
        price |-> IF action = "BUY_YES" THEN bracket.yes_price ELSE bracket.no_price,
        edge |-> IF action = "BUY_YES" THEN BracketYesEdge(bracket, model_prob)
                 ELSE BracketNoEdge(bracket, model_prob),
        cost |-> TradeCost(bracket, action),
        payout |-> 100 ]

\* recommended_trades over the sorted brackets, in their order.
RECURSIVE RecommendedTrades(_, _)
RecommendedTrades(sorted_brackets, model_forecast) ==
  IF sorted_brackets = <<>> THEN <<>>
  ELSE LET b == sorted_brackets[1]
           rest == RecommendedTrades(Tail(sorted_brackets), model_forecast)
       IN  IF BracketAction(b, BracketModelProb(b, model_forecast)) = None
           THEN rest
           ELSE <<TradeOf(b, model_forecast)>> \o rest

RECURSIVE SumOver(_, _)
SumOver(s, field) ==
  IF s = <<>> THEN 0 ELSE s[1][field] + SumOver(Tail(s), field)

\* The bracket of a list with a given label.
BracketLabelled(brackets, label) ==
  brackets[CHOOSE i \in 1..Len(brackets) : brackets[i].bracket_label = label]

\* `b.upper_bound or b.lower_bound or 0` / `b.lower_bound or b.upper_bound or 0`
YesBound(b) == PyOr(b.upper_bound, PyOr(b.lower_bound, 0))

NoBound(b) == PyOr(b.lower_bound, PyOr(b.upper_bound, 0))

RECURSIVE SumBounds(_, _, _)
SumBounds(trades, all_brackets, action) ==
  IF trades = <<>> THEN 0
  ELSE LET b == BracketLabelled(all_brackets, trades[1].bracket)
           rest == SumBounds(Tail(trades), all_brackets, action)
       IN  IF trades[1].action # action THEN rest
           ELSE IF action = "BUY_YES" THEN YesBound(b) + rest
           ELSE NoBound(b) + rest

CountAction(trades, action) ==
  Cardinality({i \in 1..Len(trades) : trades[i].action = action})

THESIS_NONE == "No clear thesis"
THESIS_UNDER == "Betting the UNDER on high scenarios. Model expects outcome in lower ranges."
THESIS_OVER == "Betting the OVER on low scenarios. Model expects outcome in higher ranges."
THESIS_MIXED == "Mixed strategy across bracket ranges."

\* BracketStrategyGenerator._generate_thesis
_generate_thesis(trades, all_brackets) ==
  IF trades = <<>> THEN THESIS_NONE
  ELSE LET yes_count == CountAction(trades, "BUY_YES")
           no_count == CountAction(trades, "BUY_NO")
           \* avg_yes_bound is +inf without YES trades, avg_no_bound -inf
           \* without NO trades
           yes_below_no ==
             /\ yes_count > 0
             /\ no_count > 0
             /\ RLt(Rat(SumBounds(trades, all_brackets, "BUY_YES"), yes_count),
                    Rat(SumBounds(trades, all_brackets, "BUY_NO"), no_count))
           no_below_yes ==
             \/ yes_count = 0
             \/ no_count = 0
             \/ RLt(Rat(SumBounds(trades, all_brackets, "BUY_NO"), no_count),
                    Rat(SumBounds(trades, all_brackets, "BUY_YES"), yes_count))
       IN  IF yes_below_no THEN THESIS_UNDER
           ELSE IF no_below_yes THEN THESIS_OVER
           ELSE THESIS_MIXED

\* Confidence from the mean edge of the recommended trades
StrategyConfidence(trades) ==
  LET avg_edge == Rat(SumOver(trades, "edge"), Len(trades))
  IN  IF RLe(RInt(15), avg_edge) THEN "High"
      ELSE IF RLe(RInt(10), avg_edge) THEN "Medium-High"
      ELSE IF RLe(RInt(7), avg_edge) THEN "Medium"
      ELSE "Low"

\* `((expected_payout - total_cost) / total_cost * 100) if total_cost > 0 else 0`
\* with expected_payout = min(len(recommended_trades), 2) * 100
StrategyRoi(trades, total_cost) ==
  LET avg_wins == Min(Len(trades), 2)
      expected_payout == avg_wins * 100
  IN  IF total_cost > 0
      THEN RMul(Rat(expected_payout - total_cost, total_cost), RInt(100))
      ELSE RInt(0)

\* The brackets of the caller's list after the call: the loop runs over
\* every bracket of the list unless the call returned at the length check.
BracketsAfter(brackets, model_forecast) ==
  IF Len(brackets) < 2 THEN brackets
  ELSE [i \in 1..Len(brackets) |-> AnalyzedBracket(brackets[i], model_forecast)]

\* BracketStrategyGenerator.generate_strategy: the value returned, None or
\* Some(BracketStrategy).
generate_strategy(topic, brackets, model_forecast) ==
  IF Len(brackets) < 2 THEN None
  ELSE LET sorted_brackets == SortedBrackets(brackets)
           recommended_trades == RecommendedTrades(sorted_brackets, model_forecast)
           total_cost == SumOver(recommended_trades, "cost")
           max_payout == SumOver(recommended_trades, "payout")
       IN  IF recommended_trades = <<>> THEN None
           ELSE Some([ topic |-> topic,
                       thesis |-> _generate_thesis(recommended_trades, sorted_brackets),
                       brackets |-> SortedBrackets(BracketsAfter(brackets, model_forecast)),
                       recommended_trades |-> recommended_trades,
                       total_cost |-> total_cost,
                       max_payout |-> max_payout,
                       expected_roi |-> StrategyRoi(recommended_trades, total_cost),
                       confidence |-> StrategyConfidence(recommended_trades),
                       resolution_info |-> "Resolution: Early 2026" ])

\* ------------------------------------------------------------------------
\* RecommendationGenerator.generate (recommendation_generator.py): the
\* fields of the report that depend on the analysis and the position.
\* ------------------------------------------------------------------------
THRESHOLD_SHORT_TERM == "8.0% (short-term)"
THRESHOLD_STANDARD == "5.0%"

\* `days_left = market.days_to_resolution` with an end date, else the
\* string "Unknown"; then
\* `"8.0% (short-term)" if days_left and days_left < 14 else "5.0%"`.
\* The string is truthy and its comparison with 14 raises TypeError.
RequiredThresholdText(market, at) ==
  IF market.end_date = None THEN "TypeError"
  ELSE LET days_left == DaysAt(market, at)[1]
       IN  IF days_left # 0 /\ days_left < 14 THEN THRESHOLD_SHORT_TERM
           ELSE THRESHOLD_STANDARD

generate(analysis, position, at) ==
  LET market == analysis.market
      action == analysis.recommended_action
      text == RequiredThresholdText(market, at)
  IN  IF text = "TypeError"
      THEN [ raised |-> "TypeError",
             outcome |-> "",
             entry_price |-> 0,
             required_threshold |-> "",
             threshold_met |-> FALSE,
             action |-> "" ]
      ELSE [ raised |-> "",
             outcome |-> IF action = BUY_YES THEN "YES"
                         ELSE IF action = BUY_NO THEN "NO" ELSE "N/A",
             entry_price |-> IF action = BUY_YES THEN yes_price(market)
                             ELSE IF action = BUY_NO THEN no_price(market) ELSE 0,
             required_threshold |-> text,
             threshold_met |-> analysis.meets_threshold,
             action |-> IF ~position.should_trade THEN "NO TRADE"
                        ELSE IF action = BUY_YES THEN "BUY YES"
                        ELSE IF action = BUY_NO THEN "BUY NO" ELSE "BUY N/A" ]

\* ------------------------------------------------------------------------
\* The arithmetic of the automated trader: the same exact rationals, with
\* common factors taken out before multiplying so that bankrolls carried
\* over several trades stay within the integers.
\* ------------------------------------------------------------------------
QAdd(a, b) ==
  LET g == Gcd(a[2], b[2])
  IN  Rat(a[1] * (b[2] \div g) + b[1] * (a[2] \div g), (a[2] \div g) * b[2])

QSub(a, b) ==
  LET g == Gcd(a[2], b[2])
  IN  Rat(a[1] * (b[2] \div g) - b[1] * (a[2] \div g), (a[2] \div g) * b[2])

QMul(a, b) ==
  LET g1 == Gcd(Abs(a[1]), b[2])
      g2 == Gcd(Abs(b[1]), a[2])
  IN  Rat((a[1] \div g1) * (b[1] \div g2), (a[2] \div g2) * (b[2] \div g1))

QDiv(a, b) ==
  IF b[1] = 0 THEN ZeroDivisionError
  ELSE QMul(a, IF b[1] < 0 THEN <<-b[2], -b[1]>> ELSE <<b[2], b[1]>>)

QLt(a, b) == QSub(a, b)[1] < 0

QLe(a, b) == QSub(a, b)[1] <= 0

QMax(a, b) == IF QLt(a, b) THEN b ELSE a

QMin(a, b) == IF QLt(b, a) THEN b ELSE a

\* ------------------------------------------------------------------------
\* automated_trader: configuration (config.py).  Prices are in thousandths
\* of a dollar, money is an exact rational number of dollars, dates and the
\* clock count days (24 hours).
\* ------------------------------------------------------------------------
\* EDGE_REQUIRED = 0.07, PROFIT_TARGET = 0.05, STOP_LOSS_PCT = -0.10
EDGE_REQUIRED == <<7, 100>>
PROFIT_TARGET == 50
STOP_LOSS_PCT == <<-1, 10>>
\* MAX_POSITION_SIZE_PCT = 0.10, MAX_DEPLOYED_PCT = 0.10
MAX_POSITION_SIZE_PCT == <<1, 10>>
MAX_DEPLOYED_PCT == <<1, 10>>
MAX_CONCURRENT_POSITIONS == 1
POSITION_TIMEOUT_HOURS == 72
NEVER_HOLD_THROUGH_RESOLUTION == TRUE
MAX_CONSECUTIVE_LOSSES == 2
\* DAILY_MAX_LOSS_PCT = 0.15
DAILY_MAX_LOSS_PCT == <<15, 100>>
RESET_LOSS_COUNTER_DAILY == TRUE
INITIAL_BANKROLL == 100

\* ------------------------------------------------------------------------
\* SignalGenerator (signal_generator.py).  An order book is
\* [yes_asks, no_asks, yes_bids, no_bids], each a set of prices.
\* ------------------------------------------------------------------------
SIGNAL_BUY_YES == "BUY_YES"
SIGNAL_BUY_NO == "BUY_NO"
NO_SIGNAL == "NO_SIGNAL"

\* min([...]) / max([...]) of a non-empty list of prices
MinOf(S) == CHOOSE x \in S : \A y \in S : x <= y

MaxOf(S) == CHOOSE x \in S : \A y \in S : x >= y

\* A price in thousandths as a number of dollars.
Price(p) == Rat(p, 1000)

\* SignalGenerator.calculate_fair_value: None without asks on a side and
\* when the division raises (both best asks 0), else
\* best_yes_price / (best_yes_price + best_no_price).
calculate_fair_value(order_book) ==
  IF order_book.yes_asks = {} \/ order_book.no_asks = {} THEN None
  ELSE LET best_yes_price == MinOf(order_book.yes_asks)
           best_no_price == MinOf(order_book.no_asks)
           fair_value == Rat(best_yes_price, best_yes_price + best_no_price)
       IN  IF fair_value = ZeroDivisionError THEN None ELSE Some(fair_value)

\* Mutant of EntryEdge: the edge is measured against a fair value of 1/2.
EntryEdge_AgainstEven(fair, best_price) == QSub(<<1, 2>>, Price(best_price))

\* `yes_edge = fair_value - best_yes_price`, `no_edge = fair_no - best_no_price`
EntryEdge(fair, best_price) == QSub(fair, Price(best_price))

\* SignalGenerator.generate_entry_signal: <<signal, entry_price>>, the
\* entry price None with NO_SIGNAL.
generate_entry_signal(order_book, fair_value) ==
  IF order_book.yes_asks = {} \/ order_book.no_asks = {} THEN <<NO_SIGNAL, None>>
  ELSE LET best_yes_price == MinOf(order_book.yes_asks)
           best_no_price == MinOf(order_book.no_asks)
           yes_edge == EntryEdge(fair_value, best_yes_price)
           fair_no == QSub(RInt(1), fair_value)
           no_edge == EntryEdge(fair_no, best_no_price)
       IN  IF QLe(EDGE_REQUIRED, yes_edge) THEN <<SIGNAL_BUY_YES, Some(best_yes_price)>>
           ELSE IF QLe(EDGE_REQUIRED, no_edge) THEN <<SIGNAL_BUY_NO, Some(best_no_price)>>
           ELSE <<NO_SIGNAL, None>>

\* SignalGenerator.calculate_exit_price: min(entry_price + PROFIT_TARGET, 0.99)
calculate_exit_price(entry_price) == QMin(Price(entry_price + PROFIT_TARGET), Price(990))

\* SignalGenerator.calculate_stop_loss_price:
\* max(entry_price * (1 + STOP_LOSS_PCT), 0.01)
calculate_stop_loss_price(entry_price) ==
  QMax(QMul(Price(entry_price), QAdd(RInt(1), STOP_LOSS_PCT)), Price(10))

\* SignalGenerator.should_exit_position(position, current_price) at clock
\* reading `at`: the reason for an exit, "" for none.  A market end date is
\* [day, aware]: `market_end - datetime.now()` raises TypeError for a
\* timezone-aware end date, datetime.now() being naive.
EXIT_TARGET == "Profit target hit"
EXIT_STOP == "Stop loss hit"
EXIT_TIMEOUT == "Position timeout"
EXIT_RESOLUTION == "Approaching resolution"

should_exit_position(pos, current_price, at) ==
  LET hours_open == 24 * (at - pos.entry_time)
  IN  IF QLe(pos.target_price, Price(current_price)) THEN EXIT_TARGET
      ELSE IF QLe(Price(current_price), pos.stop_price) THEN EXIT_STOP
      ELSE IF hours_open >= POSITION_TIMEOUT_HOURS THEN EXIT_TIMEOUT
      ELSE IF pos.market_end_date # None /\ NEVER_HOLD_THROUGH_RESOLUTION
           THEN IF pos.market_end_date[1].aware THEN "TypeError"
                ELSE IF 24 * (pos.market_end_date[1].day - at) < 24 THEN EXIT_RESOLUTION
                ELSE ""
      ELSE ""

\* _get_current_price: the best bid of the position's side, 0.5 without bids
_get_current_price(order_book, signal) ==
  LET bids == IF signal = SIGNAL_BUY_YES THEN order_book.yes_bids ELSE order_book.no_bids
  IN  IF bids = {} THEN 500 ELSE MaxOf(bids)

\* ------------------------------------------------------------------------
\* RiskController (risk_controller.py)
\* ------------------------------------------------------------------------
\* "Hit consecutive loss limit", "Hit daily loss limit" (the formatted
\* figures that follow are left out), and the text _reset_daily_metrics
\* looks for in the lowercased reason
HALT_CONSECUTIVE == <<"H","i","t"," ","c","o","n","s","e","c","u","t","i","v","e"," ","l","o","s","s"," ","l","i","m","i","t">>
HALT_DAILY == <<"H","i","t"," ","d","a","i","l","y"," ","l","o","s","s"," ","l","i","m","i","t">>
DAILY_LOSS_LIMIT == <<"d","a","i","l","y"," ","l","o","s","s"," ","l","i","m","i","t">>

\* RiskController(initial_bankroll)
RiskController(initial_bankroll) ==
  [ initial_bankroll |-> RInt(initial_bankroll),
    current_bankroll |-> RInt(initial_bankroll),
    consecutive_losses |-> 0,
    last_trade_date |-> None,
    daily_start_bankroll |-> RInt(initial_bankroll),
    daily_pnl |-> RInt(0),
    trading_halted |-> FALSE,
    halt_reason |-> None ]

halt_trading(rc, reason) ==
  [rc EXCEPT !.trading_halted = TRUE, !.halt_reason = Some(reason)]

resume_trading(rc) ==
  IF rc.trading_halted
  THEN [rc EXCEPT !.trading_halted = FALSE, !.halt_reason = None]
  ELSE rc

\* `self.daily_pnl < 0 and abs(daily_loss_pct) >= max_loss_pct`
DailyLossReached(rc) ==
  /\ QLt(rc.daily_pnl, RInt(0))
  /\ QLe(QMul(DAILY_MAX_LOSS_PCT, RInt(100)),
         QMul(QDiv(QSub(RInt(0), rc.daily_pnl), rc.daily_start_bankroll), RInt(100)))

\* RiskController.can_trade: <<can_trade, the controller as the call leaves it>>
can_trade(rc) ==
  IF rc.trading_halted THEN <<FALSE, rc>>
  ELSE IF rc.consecutive_losses >= MAX_CONSECUTIVE_LOSSES
  THEN <<FALSE, halt_trading(rc, HALT_CONSECUTIVE)>>
  ELSE IF DailyLossReached(rc)
  THEN <<FALSE, halt_trading(rc, HALT_DAILY)>>
  ELSE <<TRUE, rc>>

\* RiskController._reset_daily_metrics
_reset_daily_metrics(rc) ==
  LET r1 == [rc EXCEPT !.daily_start_bankroll = rc.current_bankroll,
                       !.daily_pnl = RInt(0),
                       !.consecutive_losses =
                         IF RESET_LOSS_COUNTER_DAILY THEN 0 ELSE rc.consecutive_losses]
  IN  IF r1.trading_halted /\ Contains(Lower(r1.halt_reason[1]), DAILY_LOSS_LIMIT)
      THEN resume_trading(r1)
      ELSE r1

\* RiskController.record_trade(pnl, trade_date)
record_trade(rc, pnl, trade_date) ==
  LET r1 == [rc EXCEPT !.current_bankroll = QAdd(rc.current_bankroll, pnl),
                       !.daily_pnl = QAdd(rc.daily_pnl, pnl),
                       !.consecutive_losses =
                         IF QLt(pnl, RInt(0)) THEN rc.consecutive_losses + 1 ELSE 0]
      r2 == IF /\ RESET_LOSS_COUNTER_DAILY
               /\ r1.last_trade_date # None
               /\ trade_date > r1.last_trade_date[1]
            THEN _reset_daily_metrics(r1)
            ELSE r1
  IN  [r2 EXCEPT !.last_trade_date = Some(trade_date)]

\* RiskController.check_daily_reset with today's date
check_daily_reset(rc, today) ==
  IF rc.last_trade_date # None /\ today > rc.last_trade_date[1]
  THEN _reset_daily_metrics(rc)
  ELSE rc

\* ------------------------------------------------------------------------
\* PositionManager (position_manager.py).  `positions` is the dict
\* market_id -> position in insertion order: a sequence of positions with
\* distinct market_id.
\* ------------------------------------------------------------------------
RECURSIVE SumSizes(_)
SumSizes(held) ==
  IF held = <<>> THEN RInt(0)
  ELSE QAdd(held[1].position_size, SumSizes(Tail(held)))

get_deployed_capital(held) == SumSizes(held)

has_position(held, market_id) ==
  \E i \in 1..Len(held) : held[i].market_id = market_id

\* Mutant of can_open_position: no limit is looked at.
can_open_position_Always(held, bankroll) == TRUE

\* PositionManager.can_open_position (every position held is OPEN)
can_open_position(held, bankroll) ==
  IF Len(held) >= MAX_CONCURRENT_POSITIONS THEN FALSE
  ELSE ~QLe(QMul(bankroll, MAX_DEPLOYED_PCT), get_deployed_capital(held))

\* PositionManager.calculate_position_size
calculate_position_size(held, bankroll) ==
  LET max_size == QMul(bankroll, MAX_POSITION_SIZE_PCT)
      remaining == QSub(QMul(bankroll, MAX_DEPLOYED_PCT), get_deployed_capital(held))
  IN  QMin(max_size, remaining)

\* The position dict open_position builds.
NewPosition(market_id, signal, entry_price, position_size, market_end_date, at) ==
  [ market_id |-> market_id,
    signal |-> signal,
    entry_price |-> entry_price,
    target_price |-> calculate_exit_price(entry_price),
    stop_price |-> calculate_stop_loss_price(entry_price),
    position_size |-> position_size,
    shares |-> QDiv(position_size, Price(entry_price)),
    entry_time |-> at,
    market_end_date |-> market_end_date ]

\* `self.positions[market_id] = position`: a held key keeps its place.
open_position(held, pos) ==
  IF has_position(held, pos.market_id)
  THEN [i \in 1..Len(held) |->
          IF held[i].market_id = pos.market_id THEN pos ELSE held[i]]
  ELSE Append(held, pos)

\* P&L of close_position: shares * exit_price - position_size
ClosePnl(pos, exit_price) ==
  QSub(QMul(pos.shares, Price(exit_price)), pos.position_size)

\* `del self.positions[market_id]`
RECURSIVE WithoutMarket(_, _)
WithoutMarket(held, market_id) ==
  IF held = <<>> THEN <<>>
  ELSE IF held[1].market_id = market_id THEN WithoutMarket(Tail(held), market_id)
  ELSE <<held[1]>> \o WithoutMarket(Tail(held), market_id)

\* ------------------------------------------------------------------------
\* Inputs of the pipeline
\* ------------------------------------------------------------------------
\* Last clock reading (days) the model lets time reach.
MaxNow == 1

\* outcome_prices of the market snapshots: YES/NO pairs summing to 1, a pair
\* with a spread, and the malformed vectors of fewer than 2 prices.
PriceVectors ==
  {<<y, 100 - y>> : y \in {3, 9, 35, 60, 91, 97, 100}}
    \cup {<<60, 38>>, <<60>>, <<>>}

Volumes == {50000, 200000, 600000}

EndDates == {None, Some(1), Some(14)}

Markets ==
  [ question : Questions,
    outcome_prices : PriceVectors,
    volume : Volumes,
    end_date : EndDates ]

\* Arguments (model_yes_prob, model_no_prob) given to analyze_edge:
\* fractions, a percentage (7000 is 70.0), NO omitted or explicit.
Forecasts ==
  {[yes |-> y, no |-> None] : y \in {0, 30, 45, 66, 70, 90, 100, 7000}}
    \cup {[yes |-> 70, no |-> Some(30)],
          [yes |-> 60, no |-> Some(60)],
          [yes |-> 7000, no |-> Some(3000)]}

DetectorConfigs == {EdgeConfig, [EdgeConfig EXCEPT !.apply_sanity_caps = FALSE]}

\* PositionSizer(bankroll, config=...) as constructed: $1000 with the default
\* configuration, $20 with the default and with the small-bankroll one.
NewSizer(bankroll, config) ==
  [ bankroll |-> bankroll,
    current_positions |-> 0,
    deployed_capital |-> 0,
    config |-> config ]

Sizers ==
  {NewSizer(100000, PositionConfig), NewSizer(2000, PositionConfig),
   NewSizer(2000, SmallBankrollConfig)}

\* Portfolio states <<open positions, deployed share of the bankroll in percent>>
\* reported by the position-tracking layer.
Portfolios == {<<0, 0>>, <<5, 0>>, <<0, 20>>}

\* ------------------------------------------------------------------------
\* State
\* ------------------------------------------------------------------------
VARIABLES
  now,        \* the clock (whole days), read by Market.days_to_resolution
  detector,   \* EdgeDetector.config
  sizer,      \* PositionSizer: bankroll, current_positions, deployed_capital, config
  market,     \* Optional: the Market snapshot being processed
  edge_call,  \* Optional: arguments and clock reading of the analyze_edge call
  analysis,   \* Optional: the EdgeAnalysis it returned
  size_call,  \* Optional: clock reading and sizer of the calculate_position call
  position,   \* Optional: the PositionRecommendation it returned
  pc,         \* "idle", "fetched", "analyzed", "sized", "recommended"
  recommendation, \* Optional: what RecommendationGenerator.generate produced
  cap_args,   \* Optional: arguments of a direct apply_sanity_caps call
  cap_result, \* Optional: the <<capped_probability, reason>> it returned
  brackets,   \* the caller's list of BracketMarket objects
  strategy_call, \* sequence of the generate_strategy calls made: arguments as passed
  strategy,   \* Optional: Some(value returned by the last generate_strategy call)
  second_call,     \* Optional: clock reading of a repeated analyze_edge call
  second_analysis, \* Optional: the EdgeAnalysis the repeated call returned
  signal_args,   \* Optional: the order book handed to the SignalGenerator
  signal_result, \* Optional: <<fair value, <<signal, entry price>>>> it produced
  fetch,      \* Optional: state of a get_all_active_markets call
  risk,       \* the RiskController's fields
  recorded,   \* the record_trade calls made: <<pnl, trade_date>> in call order
  clock,      \* datetime.now() of the automated trader, in days
  kind,       \* which loop runs: "AutomatedTrader" or "BotController", "" for none
  is_running, \* BotController.is_running
  threads,    \* loop thread -> its position in the loop
  open_positions \* PositionManager.positions, in insertion order

vars ==
  <<now, detector, sizer, market, edge_call, analysis, size_call, position, pc,
    recommendation, cap_args, cap_result, brackets, strategy_call, strategy,
    second_call, second_analysis,
    signal_args, signal_result, fetch, risk, recorded, clock, kind, is_running,
    threads, open_positions>>

capVars == <<cap_args, cap_result>>

bracketVars == <<brackets, strategy_call, strategy>>

repeatVars == <<second_call, second_analysis>>

signalVars == <<signal_args, signal_result>>

loopVars == <<risk, recorded, clock, kind, is_running, threads, open_positions>>

traderVars == <<signalVars, fetch, loopVars>>


pipelineVars ==
  <<now, detector, sizer, market, edge_call, analysis, size_call, position, pc,
    recommendation>>

\* The specifications of the analysis pipeline leave the automated trader
\* unbuilt, and the other way round.
coreVars == <<pipelineVars, capVars, bracketVars, repeatVars>>

MaxThreads == 2
Threads == 1..MaxThreads
\* The thread that calls start() and stop()
Caller == 0

TraderIdle ==
  /\ signal_args = None
  /\ signal_result = None
  /\ fetch = None
  /\ risk = RiskController(INITIAL_BANKROLL)
  /\ recorded = <<>>
  /\ clock = 0
  /\ kind = ""
  /\ is_running = FALSE
  /\ threads = [t \in {Caller} \cup Threads |-> IF t = Caller THEN "idle" ELSE "unborn"]
  /\ open_positions = <<>>

CoreIdle ==
  /\ now = 0
  /\ detector = EdgeConfig
  /\ sizer = NewSizer(100000, PositionConfig)
  /\ market = None
  /\ edge_call = None
  /\ analysis = None
  /\ size_call = None
  /\ position = None
  /\ pc = "idle"
  /\ recommendation = None
  /\ cap_args = None
  /\ cap_result = None
  /\ brackets = <<>>
  /\ strategy_call = <<>>
  /\ strategy = None
  /\ second_call = None
  /\ second_analysis = None

days_to_resolution(m) == DaysAt(m, now)

Init ==
  /\ now = 0
  /\ detector \in DetectorConfigs
  /\ sizer \in Sizers
  /\ market = None
  /\ edge_call = None
  /\ analysis = None
  /\ size_call = None
  /\ position = None
  /\ pc = "idle"
  /\ recommendation = None
  /\ brackets = <<>>
  /\ strategy_call = <<>>
  /\ strategy = None
  /\ second_call = None
  /\ second_analysis = None
  /\ cap_args = None
  /\ cap_result = None
  /\ TraderIdle

\* The clock advances (between the pipeline's calls on one market the clock
\* reading is taken to be the same day).
Tick ==
  /\ now < MaxNow
  /\ pc \in {"idle", "fetched"}
  /\ now' = now + 1
  /\ UNCHANGED <<detector, sizer, market, edge_call, analysis, size_call, position, pc, recommendation, capVars, bracketVars, repeatVars, traderVars>>

\* PositionSizer.update_portfolio_state(positions, deployed)
update_portfolio_state(positions, deployed) ==
  /\ pc = "idle"
  /\ sizer' = [sizer EXCEPT !.current_positions = positions,
                            !.deployed_capital = deployed]
  /\ UNCHANGED <<now, detector, market, edge_call, analysis, size_call, position, pc, recommendation, capVars, bracketVars, repeatVars, traderVars>>

\* The fetch layer hands over a validated Market snapshot.
FetchMarket(m) ==
  /\ pc = "idle"
  /\ market' = Some(m)
  /\ pc' = "fetched"
  /\ UNCHANGED <<now, detector, sizer, edge_call, analysis, size_call, position, recommendation, capVars, bracketVars, repeatVars, traderVars>>

\* EdgeDetector.analyze_edge(market, model_yes_prob, model_no_prob)
AnalyzeEdge(f) ==
  /\ pc = "fetched"
  /\ analysis' = Some(analyze_edge(detector, market[1], f.yes, f.no, now))
  /\ edge_call' = Some([model_yes_prob |-> f.yes, model_no_prob |-> f.no, at |-> now])
  /\ pc' = "analyzed"
  /\ UNCHANGED <<now, detector, sizer, market, size_call, position, recommendation, capVars, bracketVars, repeatVars, traderVars>>

\* PositionSizer.calculate_position(analysis)
CalculatePosition ==
  /\ pc = "analyzed"
  /\ position' = Some(calculate_position(sizer, analysis[1], now))
  /\ size_call' = Some([at |-> now])
  /\ pc' = "sized"
  /\ UNCHANGED <<now, detector, sizer, market, edge_call, analysis, recommendation, capVars, bracketVars, repeatVars, traderVars>>

\* RecommendationGenerator.generate(analysis, position, bankroll), called by
\* the pipeline for an analysis that meets the threshold and a position
\* that should be traded.
GenerateRecommendation ==
  /\ pc = "sized"
  /\ analysis[1].meets_threshold
  /\ position[1].should_trade
  /\ recommendation' = Some(generate(analysis[1], position[1], now))
  /\ pc' = "recommended"
  /\ UNCHANGED <<now, detector, sizer, market, edge_call, analysis, size_call, position,
                 capVars, bracketVars, repeatVars, traderVars>>

\* The pipeline turns to the next market.
NextMarket ==
  /\ pc \in {"analyzed", "sized", "recommended"}
  /\ market' = None
  /\ edge_call' = None
  /\ analysis' = None
  /\ size_call' = None
  /\ position' = None
  /\ recommendation' = None
  /\ pc' = "idle"
  /\ UNCHANGED <<now, detector, sizer, capVars, bracketVars, repeatVars, traderVars>>

Next ==
  \/ Tick
  \/ \E p \in Portfolios :
       update_portfolio_state(p[1], (sizer.bankroll * p[2]) \div 100)
  \/ \E m \in Markets : FetchMarket(m)
  \/ \E f \in Forecasts : AnalyzeEdge(f)
  \/ CalculatePosition
  \/ GenerateRecommendation
  \/ NextMarket

Spec == Init /\ [][Next]_vars

\* ------------------------------------------------------------------------
\* apply_sanity_caps called directly, over a grid of its arguments
\* ------------------------------------------------------------------------
\* Largest model_prob of the grid (hundredths; above 100 the forecaster's
\* number is not a probability, which the caps do not assume).
MaxModelProb == 105

CapVolumes == {100000, 100001}

CapArguments ==
  [ model_prob : 0..MaxModelProb,
    market_prob : 0..100,
    total_volume : CapVolumes,
    question : Questions ]

InitCaps ==
  /\ now = 0
  /\ detector = EdgeConfig
  /\ sizer = NewSizer(100000, PositionConfig)
  /\ market = None
  /\ edge_call = None
  /\ analysis = None
  /\ size_call = None
  /\ position = None
  /\ pc = "idle"
  /\ recommendation = None
  /\ brackets = <<>>
  /\ strategy_call = <<>>
  /\ strategy = None
  /\ second_call = None
  /\ second_analysis = None
  /\ cap_args \in {Some(a) : a \in CapArguments}
  /\ cap_result = None
  /\ TraderIdle

ApplySanityCaps ==
  /\ cap_args # None
  /\ cap_result = None
  /\ cap_result' = Some(apply_sanity_caps(cap_args[1].model_prob, cap_args[1].market_prob,
                                          cap_args[1].total_volume, cap_args[1].question))
  /\ UNCHANGED <<pipelineVars, cap_args, bracketVars, repeatVars, traderVars>>

NextCaps == ApplySanityCaps

SpecCaps == InitCaps /\ [][NextCaps]_vars

\* ------------------------------------------------------------------------
\* generate_strategy called on groups of related bracket markets
\* ------------------------------------------------------------------------
\* Number of generate_strategy calls made on one list of brackets.
MaxStrategyCalls == 2

\* Probabilities a model forecast gives to a bracket (hundredths).
BracketModelProbs == {42, 70}

TOPIC == "Largest Company 2025"

\* Lists of BracketMarket objects as group_related_markets hands them over:
\* one bracket alone, two and four brackets out of order, three brackets
\* with a lower bound of 0 and prices that do not sum to 1.
BracketGroups ==
  { << BracketMarket("<$100b", None, Some(100), 20, 80) >>,
    << BracketMarket("$100-200b", Some(100), Some(200), 0, 100),
       BracketMarket("<$100b", None, Some(100), 40, 60) >>,
    << BracketMarket("0-100", Some(0), Some(100), 36, 50),
       BracketMarket("100-200", Some(100), Some(200), 50, 50),
       BracketMarket(">200", Some(200), None, 100, 0) >>,
    << BracketMarket("$200-300b", Some(200), Some(300), 60, 40),
       BracketMarket("<$100b", None, Some(100), 20, 80),
       BracketMarket(">$300b", Some(300), None, 40, 60),
       BracketMarket("$100-200b", Some(100), Some(200), 36, 64) >> }

Labels(group) == {group[i].bracket_label : i \in 1..Len(group)}

\* The model forecasts for a group: probabilities for any subset of its
\* labels (none at all: no forecast, or an empty dict).
BracketForecasts(group) ==
  UNION {[S -> BracketModelProbs] : S \in SUBSET Labels(group)}

InitBrackets ==
  /\ now = 0
  /\ detector = EdgeConfig
  /\ sizer = NewSizer(100000, PositionConfig)
  /\ market = None
  /\ edge_call = None
  /\ analysis = None
  /\ size_call = None
  /\ position = None
  /\ pc = "idle"
  /\ recommendation = None
  /\ cap_args = None
  /\ cap_result = None
  /\ brackets \in BracketGroups
  /\ strategy_call = <<>>
  /\ strategy = None
  /\ second_call = None
  /\ second_analysis = None
  /\ TraderIdle

\* BracketStrategyGenerator.generate_strategy(topic, brackets, model_forecast):
\* the value returned and the caller's objects as the call leaves them.
GenerateStrategy(model_forecast) ==
  /\ Len(strategy_call) < MaxStrategyCalls
  /\ strategy' = Some(generate_strategy(TOPIC, brackets, model_forecast))
  /\ brackets' = BracketsAfter(brackets, model_forecast)
  /\ strategy_call' = Append(strategy_call,
                             [ topic |-> TOPIC,
                               brackets |-> brackets,
                               model_forecast |-> model_forecast ])
  /\ UNCHANGED <<pipelineVars, capVars, repeatVars, traderVars>>

NextBrackets == \E f \in BracketForecasts(brackets) : GenerateStrategy(f)

SpecBrackets == InitBrackets /\ [][NextBrackets]_vars

\* ------------------------------------------------------------------------
\* analyze_edge called a second time on the same Market object with the
\* same arguments and configuration
\* ------------------------------------------------------------------------
InitRepeat ==
  /\ Init
  /\ sizer = NewSizer(100000, PositionConfig)

\* Time passes between the two calls.
Elapse ==
  /\ now < MaxNow
  /\ pc = "analyzed"
  /\ second_call = None
  /\ now' = now + 1
  /\ UNCHANGED <<detector, sizer, market, edge_call, analysis, size_call, position, pc,
                 recommendation, capVars, bracketVars, repeatVars, traderVars>>

\* EdgeDetector.analyze_edge(market, model_yes_prob, model_no_prob), again
AnalyzeEdgeAgain ==
  /\ pc = "analyzed"
  /\ second_call = None
  /\ second_analysis' = Some(analyze_edge(detector, market[1],
                                          edge_call[1].model_yes_prob,
                                          edge_call[1].model_no_prob, now))
  /\ second_call' = Some([at |-> now])
  /\ UNCHANGED <<pipelineVars, capVars, bracketVars, traderVars>>

NextRepeat ==
  \/ Tick
  \/ \E m \in Markets : FetchMarket(m)
  \/ \E f \in Forecasts : AnalyzeEdge(f)
  \/ Elapse
  \/ AnalyzeEdgeAgain

SpecRepeat == InitRepeat /\ [][NextRepeat]_vars

\* ========================================================================
\* Properties
\* ========================================================================
\* An analyze_edge call has returned for the market in hand.
Analyzed == pc \in {"analyzed", "sized", "recommended"}

\* The market in hand is a valid binary snapshot (two prices summing to 1)
\* and the detector has the default EdgeConfig.
ValidSnapshot ==
  /\ Len(market[1].outcome_prices) = 2
  /\ market[1].outcome_prices[1] + market[1].outcome_prices[2] = 100
  /\ detector = EdgeConfig

\* days_to_resolution as read during the analyze_edge call.
AnalysisDays == DaysAt(market[1], edge_call[1].at)

\* days_to_resolution as read during the calculate_position call.
SizingDays == DaysAt(market[1], size_call[1].at)

\* Short-term as specified: an end date, and fewer than short_term_days days
\* to it (0 included).
ShortTermDays(days, short_term_days) == days # None /\ days[1] < short_term_days

\* The threshold as specified: sports, else short-term, else standard.
SpecifiedThreshold ==
  IF is_sports_market(market[1].question) THEN detector.min_edge_sports
  ELSE IF ShortTermDays(AnalysisDays, detector.short_term_days)
       THEN detector.min_edge_short_term
  ELSE detector.min_edge_percent

EffectiveYesEdge ==
  (analysis[1].model_yes_prob - analysis[1].market_yes_price) - detector.expected_slippage

EffectiveNoEdge ==
  (analysis[1].model_no_prob - analysis[1].market_no_price) - detector.expected_slippage

\* C1: an accepted position's position_percent is at most
\* max_short_term_percent when days_to_resolution < short_term_days (0..13,
\* 0 included) and at most max_position_percent otherwise.
C1_PositionWithinApplicableCap ==
  (pc = "sized" /\ ValidSnapshot /\ position[1].should_trade) =>
    position[1].position_percent <=
      100 * (IF ShortTermDays(SizingDays, sizer.config.short_term_days)
             THEN sizer.config.max_short_term_percent
             ELSE sizer.config.max_position_percent)

\* C2: on a 'super bowl' question, a supplied model YES probability more than
\* 0.20 away from the market YES price always gives NO_TRADE.
C2_SuperBowlFarFromMarketNoTrade ==
  (/\ Analyzed
   /\ ValidSnapshot
   /\ market[1].question = Q_SB
   /\ Abs(NormalizeProb(edge_call[1].model_yes_prob) - yes_price(market[1])) > 20)
    => analysis[1].recommended_action = NO_TRADE

\* C3: in every EdgeAnalysis returned, model_yes_prob + model_no_prob = 1.
C3_Complementarity ==
  (Analyzed /\ ValidSnapshot) => analysis[1].model_yes_prob + analysis[1].model_no_prob = 100

\* C4: the effective edge analyze_edge requires is 15 for a sports market,
\* else 8 when days_to_resolution < 14 (0 included), else 5: a recommended
\* side has at least that edge, and an "Edge too small" rejection of a
\* strictly better side means that side is below it.
C4_RequiredThreshold ==
  (Analyzed /\ ValidSnapshot) =>
    /\ analysis[1].meets_threshold => analysis[1].edge_percent >= SpecifiedThreshold
    /\ (analysis[1].reason = REASON_TOO_SMALL /\ EffectiveYesEdge # EffectiveNoEdge)
         => Max(EffectiveYesEdge, EffectiveNoEdge) < SpecifiedThreshold

\* A direct apply_sanity_caps call has returned.
Capped == cap_result # None

\* C5: with total_volume > 100,000 the probability apply_sanity_caps returns
\* (after all three rules) is within 0.20 of market_prob.
C5_HighVolumeWithin20 ==
  (Capped /\ cap_args[1].total_volume > 100000)
    => Abs(cap_result[1][1] - cap_args[1].market_prob) <= 20

\* C5 witness: a high-volume call whose model_prob was more than 0.20 above
\* the market, clamped by rule 1 and then cut again by the sports rule.
C5_Witness ==
  /\ Capped
  /\ cap_args[1].total_volume > 100000
  /\ cap_args[1].question = Q_CH
  /\ cap_args[1].market_prob = 35
  /\ cap_args[1].model_prob = 90
  /\ cap_result[1] = <<45, REASON_SPORTS_LONGSHOT>>

\* C6: with market_prob < 0.05 or > 0.95 the probability apply_sanity_caps
\* returns is within 0.05 of market_prob.
C6_ExtremePriceWithin5 ==
  (Capped /\ (cap_args[1].market_prob < 5 \/ cap_args[1].market_prob > 95))
    => Abs(cap_result[1][1] - cap_args[1].market_prob) <= 5

\* C6 witness: a 97c market and a model at 50%, pulled up to 92%.
C6_Witness ==
  /\ Capped
  /\ cap_args[1].market_prob = 97
  /\ cap_args[1].model_prob = 50
  /\ cap_args[1].total_volume <= 100000
  /\ cap_result[1] = <<92, REASON_EXTREME>>

\* C7: for a 'super bowl' or 'championship' question apply_sanity_caps never
\* returns more than market_prob + 0.10, and with market_prob < 0.40 never
\* more than min(0.50, market_prob + 0.10).
C7_ChampionshipUpperCap ==
  (Capped /\ cap_args[1].question \in {Q_SB, Q_CH}) =>
    /\ cap_result[1][1] <= cap_args[1].market_prob + 10
    /\ cap_args[1].market_prob < 40
         => cap_result[1][1] <= Min(50, cap_args[1].market_prob + 10)

\* C7 witness: a Super Bowl longshot at 20c with a model at 45% (not above
\* 50%), low volume: cut to 30% by the +10% clamp.
C7_Witness ==
  /\ Capped
  /\ cap_args[1].question = Q_SB
  /\ cap_args[1].market_prob = 20
  /\ cap_args[1].model_prob = 45
  /\ cap_args[1].total_volume <= 100000
  /\ cap_result[1] = <<30, REASON_SPORTS_MAX>>

\* The portfolio is at a limit: positions at the maximum, or the deployed
\* share of the bankroll at the maximum.
AtPortfolioLimit ==
  \/ sizer.current_positions >= sizer.config.max_concurrent_positions
  \/ sizer.deployed_capital * 100 >= sizer.config.max_deployed_capital * sizer.bankroll

NothingSized ==
  /\ ~position[1].should_trade
  /\ position[1].position_percent = 0
  /\ position[1].position_usd = 0

\* C8 as claimed: at a portfolio limit calculate_position rejects with zero
\* size, and the reason is the gate's reason for every EdgeAnalysis.
C8_GateReasonForEveryAnalysis ==
  (pc = "sized" /\ AtPortfolioLimit) =>
    /\ NothingSized
    /\ position[1].reason \in {REASON_MAX_POSITIONS, REASON_MAX_CAPITAL}

\* C8 as amended: at a portfolio limit calculate_position rejects with zero
\* size and risk level N/A for every EdgeAnalysis; the reason is the gate's
\* (positions before capital) when the analysis meets its threshold, and the
\* analysis's own reason when it does not.
C8_GateRejects ==
  (pc = "sized" /\ AtPortfolioLimit) =>
    /\ NothingSized
    /\ position[1].risk_level = "N/A"
    /\ position[1].reason =
         IF ~analysis[1].meets_threshold THEN analysis[1].reason
         ELSE IF sizer.current_positions >= sizer.config.max_concurrent_positions
              THEN REASON_MAX_POSITIONS
         ELSE REASON_MAX_CAPITAL

\* C8 witness: a 19-point edge rejected by the deployed-capital gate alone.
C8_Witness ==
  /\ pc = "sized"
  /\ analysis[1].meets_threshold
  /\ analysis[1].edge_percent >= 19
  /\ sizer.current_positions = 0
  /\ sizer.deployed_capital * 100 = sizer.config.max_deployed_capital * sizer.bankroll
  /\ position[1].reason = REASON_MAX_CAPITAL
  /\ NothingSized

\* C9: an accepted position has position_usd >= min_position_usd; when the
\* sizing step is reached (threshold met, no portfolio gate) and the capped
\* fraction times the bankroll is below min_position_usd, the call rejects
\* with zero size and the size-shortfall reason.
C9_MinimumTradeSize ==
  pc = "sized" =>
    /\ position[1].should_trade
         => position[1].position_usd >= sizer.config.min_position_usd
    /\ (/\ analysis[1].meets_threshold
        /\ ~AtPortfolioLimit
        /\ RLt(PositionUsd(sizer, analysis[1], size_call[1].at),
               Dollars(sizer.config.min_position_usd)))
         => (NothingSized /\ position[1].reason = REASON_TOO_SMALL_POSITION)

\* C9 witness: bankroll $20, cap 2%, minimum $1: a 9-point edge is rejected
\* for its size.
C9_Witness ==
  /\ pc = "sized"
  /\ sizer.bankroll = 2000
  /\ sizer.config = PositionConfig
  /\ analysis[1].recommended_action = BUY_YES
  /\ analysis[1].edge_percent = 9
  /\ ~AtPortfolioLimit
  /\ position[1].reason = REASON_TOO_SMALL_POSITION
  /\ NothingSized

\* ROI of a side as specified: (model - price) / price * 100 >= minimum,
\* 0 for a price of 0.
RoiAtLeast(model_prob, price, minimum) ==
  IF price > 0 THEN (model_prob - price) * 100 >= minimum * price ELSE 0 >= minimum

\* C10: when no guardrail fires, BUY_YES exactly when the effective YES edge
\* is >= the required threshold, strictly above the effective NO edge and, on
\* a short-term market, the YES ROI is >= min_roi_short_term; BUY_NO exactly
\* under the symmetric condition; NO_TRADE otherwise; edge_percent is the
\* chosen side's effective edge.
C10_SideSelection ==
  (/\ Analyzed
   /\ ValidSnapshot
   /\ analysis[1].reason \notin {REASON_SUPER_BOWL, REASON_IMPLAUSIBLE}) =>
    LET a == analysis[1]
        short == ShortTermDays(AnalysisDays, detector.short_term_days)
        yes_ok == /\ EffectiveYesEdge >= SpecifiedThreshold
                  /\ EffectiveYesEdge > EffectiveNoEdge
                  /\ short => RoiAtLeast(a.model_yes_prob, a.market_yes_price,
                                         detector.min_roi_short_term)
        no_ok == /\ EffectiveNoEdge >= SpecifiedThreshold
                 /\ EffectiveNoEdge > EffectiveYesEdge
                 /\ short => RoiAtLeast(a.model_no_prob, a.market_no_price,
                                        detector.min_roi_short_term)
    IN  /\ (a.recommended_action = BUY_YES) <=> yes_ok
        /\ (a.recommended_action = BUY_NO) <=> no_ok
        /\ (a.recommended_action = NO_TRADE) <=> (~yes_ok /\ ~no_ok)
        /\ a.recommended_action = BUY_YES => a.edge_percent = EffectiveYesEdge
        /\ a.recommended_action = BUY_NO => a.edge_percent = EffectiveNoEdge

\* The edges computed from the (possibly capped) probabilities of the analysis.
RawYesEdge == analysis[1].model_yes_prob - analysis[1].market_yes_price

RawNoEdge == analysis[1].model_no_prob - analysis[1].market_no_price

\* The market in hand has volume > 500,000 and the larger raw edge exceeds
\* max_edge_high_volume.
HighVolumeImplausible ==
  /\ Analyzed
  /\ market[1].volume > 500000
  /\ Max(RawYesEdge, RawNoEdge) > detector.max_edge_high_volume

\* The result of a short-circuit: nothing selected.
NothingSelected ==
  /\ analysis[1].recommended_action = NO_TRADE
  /\ ~analysis[1].meets_threshold
  /\ analysis[1].edge_percent = 0
  /\ analysis[1].target_price = 0
  /\ analysis[1].potential_roi = RInt(0)

\* The Super Bowl guardrail's condition on the analysis in hand.
SuperBowlMismatch ==
  /\ is_super_bowl_market(market[1].question)
  /\ Abs(analysis[1].model_yes_prob - analysis[1].market_yes_price) > 20

EdgeReasons ==
  {REASON_SUPER_BOWL, REASON_IMPLAUSIBLE, REASON_NONE, REASON_YES_ROI, REASON_NO_ROI,
   REASON_YES, REASON_NO, REASON_TOO_SMALL, REASON_FAIR}

\* The market in hand has no resolution date or fewer than 2 outcome prices.
DefectiveMarket ==
  \/ market[1].end_date = None
  \/ Len(market[1].outcome_prices) < 2

\* C12: for a market with no resolution date or fewer than 2 outcome prices
\* analyze_edge returns NO_TRADE (meets_threshold false) with a reason that
\* names the defect, i.e. a reason other than those of the edge analysis.
C12_DefectiveMarketRejected ==
  (Analyzed /\ DefectiveMarket) =>
    /\ analysis[1].recommended_action = NO_TRADE
    /\ ~analysis[1].meets_threshold
    /\ analysis[1].reason \notin EdgeReasons

\* A value was computed without a division by zero.
NoRaise(x) == x # ZeroDivisionError

DegeneratePrices == {0, 100}

\* Prices at which the sizing arithmetic is re-evaluated: both degenerate
\* prices, their neighbours and the middle.
SidePrices == {0, 1, 50, 99, 100}

\* The analysis in hand, as it would be with `action` recommended at a
\* market price `price` on that side.
AtPrice(action, price) ==
  IF action = BUY_YES
  THEN [analysis[1] EXCEPT !.recommended_action = BUY_YES, !.market_yes_price = price]
  ELSE [analysis[1] EXCEPT !.recommended_action = BUY_NO, !.market_no_price = price]

\* C13: analyze_edge and calculate_position never raise on degenerate
\* prices: a side priced at 0 gets ROI 0 (potential_roi and expected_roi),
\* and a side priced at 0 or at 1 (odds <= 0) gets Kelly fraction 0, so that
\* nothing is sized on it.
C13_DegeneratePricesGiveZero ==
  /\ pc = "analyzed" =>
       /\ NoRaise(analysis[1].potential_roi)
       /\ analysis[1].market_yes_price = 0
            => SideRoi(analysis[1].model_yes_prob, analysis[1].market_yes_price) = RInt(0)
       /\ analysis[1].market_no_price = 0
            => SideRoi(analysis[1].model_no_prob, analysis[1].market_no_price) = RInt(0)
       /\ (analysis[1].recommended_action = BUY_YES /\ analysis[1].market_yes_price = 0)
            => analysis[1].potential_roi = RInt(0)
       /\ (analysis[1].recommended_action = BUY_NO /\ analysis[1].market_no_price = 0)
            => analysis[1].potential_roi = RInt(0)
       /\ \A action \in {BUY_YES, BUY_NO} :
            /\ \A price \in DegeneratePrices :
                 /\ RLe(Odds(price), RInt(0))
                 /\ KellyPercent(sizer.config, AtPrice(action, price)) = RInt(0)
            /\ ExpectedRoi(AtPrice(action, 0)) = RInt(0)
            /\ \A price \in SidePrices :
                 /\ NoRaise(Odds(price))
                 /\ NoRaise(KellyPercent(sizer.config, AtPrice(action, price)))
                 /\ NoRaise(ExpectedRoi(AtPrice(action, price)))
  /\ (/\ pc = "sized"
      /\ analysis[1].meets_threshold
      /\ (IF analysis[1].recommended_action = BUY_YES
          THEN analysis[1].market_yes_price
          ELSE analysis[1].market_no_price) \in DegeneratePrices)
       => /\ position[1].position_percent = 0
          /\ position[1].position_usd = 0
          /\ position[1].expected_roi = 0

\* C13 witness: BUY_NO recommended at a NO price of 0; potential_roi is 0,
\* the quarter-Kelly size is 0 and the position is rejected for its size.
C13_Witness ==
  /\ pc = "sized"
  /\ analysis[1].recommended_action = BUY_NO
  /\ analysis[1].market_no_price = 0
  /\ analysis[1].potential_roi = RInt(0)
  /\ ~AtPortfolioLimit
  /\ KellyPercent(sizer.config, analysis[1]) = RInt(0)
  /\ position[1].reason = REASON_TOO_SMALL_POSITION
  /\ position[1].expected_roi = 0


\* ------------------------------------------------------------------------
\* C14
\* ------------------------------------------------------------------------
\* A step in which analyze_edge, calculate_position or generate_strategy
\* is called.
CoreCall ==
  \/ edge_call' # edge_call /\ edge_call' # None
  \/ size_call' # size_call /\ size_call' # None
  \/ Len(strategy_call') > Len(strategy_call)

\* C14: no call of analyze_edge, calculate_position or generate_strategy
\* changes its inputs: the Market, the BracketMarket records (model_prob,
\* recommended_action, edge_percent) and the PositionSizer's state are after
\* the call what they were before it.
C14_CoreCallsLeaveInputs ==
  [][CoreCall => market' = market /\ sizer' = sizer /\ brackets' = brackets]_vars


\* ------------------------------------------------------------------------
\* C15
\* ------------------------------------------------------------------------
\* C15: two calls of analyze_edge with the same market, the same
\* probabilities and the same configuration return identical values,
\* whenever the second call is made.
C15_RepeatedCallSameResult ==
  second_analysis # None => second_analysis = analysis


\* ------------------------------------------------------------------------
\* C16
\* ------------------------------------------------------------------------
\* C16: every EdgeAnalysis returned for a sports market (is_sports true)
\* has confidence "low", on the normal selection path and on both guardrail
\* returns, however large the edge.
C16_SportsConfidenceLow ==
  Analyzed /\ analysis[1].is_sports => analysis[1].confidence = "low"

\* A sports market on which a side is selected with an effective edge of at
\* least 15 points, where a non-sports market is given confidence "high".
C16_Witness ==
  /\ Analyzed
  /\ analysis[1].is_sports
  /\ analysis[1].recommended_action # "NO_TRADE"
  /\ analysis[1].edge_percent >= 15
  /\ analysis[1].confidence = "low"


\* ------------------------------------------------------------------------
\* C17
\* ------------------------------------------------------------------------
\* The last generate_strategy call made and what it returned.
LastCall == strategy_call[Len(strategy_call)]

StrategyCalled == strategy # None /\ Len(LastCall.brackets) >= 2

ReturnedTrades ==
  IF strategy[1] = None THEN <<>> ELSE strategy[1][1].recommended_trades

\* The action recommended for a bracket by the returned strategy, None when
\* the bracket is in no recommended trade.
RecommendedFor(label) ==
  IF \E i \in 1..Len(ReturnedTrades) : ReturnedTrades[i].bracket = label
  THEN Some(ReturnedTrades[CHOOSE i \in 1..Len(ReturnedTrades) :
                             ReturnedTrades[i].bracket = label].action)
  ELSE None

\* C17: generate_strategy recommends BUY_YES for a bracket exactly when
\* yes_edge >= 5 and yes_edge is the larger of the two edges, BUY_NO exactly
\* when no_edge >= 5 and no_edge is the larger, and leaves every other
\* bracket out of recommended_trades (with equal edges either side is
\* accepted).
C17_LargerEdgeSideRecommended ==
  StrategyCalled =>
    \A i \in 1..Len(LastCall.brackets) :
      LET b == LastCall.brackets[i]
          model_prob == BracketModelProb(b, LastCall.model_forecast)
          yes_edge == BracketYesEdge(b, model_prob)
          no_edge == BracketNoEdge(b, model_prob)
          rec == RecommendedFor(b.bracket_label)
      IN  /\ rec = Some("BUY_YES") => yes_edge >= 5 /\ yes_edge >= no_edge
          /\ rec = Some("BUY_NO") => no_edge >= 5 /\ no_edge >= yes_edge
          /\ yes_edge >= 5 /\ yes_edge > no_edge => rec = Some("BUY_YES")
          /\ no_edge >= 5 /\ no_edge > yes_edge => rec = Some("BUY_NO")
          /\ yes_edge >= 5 /\ yes_edge = no_edge => rec # None


\* ------------------------------------------------------------------------
\* C18
\* ------------------------------------------------------------------------
\* Entry price x 100 of a trade, in dollars, read from the bracket as the
\* caller passed it: the YES price of a BUY_YES, the NO price of a BUY_NO.
EntryCost(trade) ==
  LET b == BracketLabelled(LastCall.brackets, trade.bracket)
  IN  IF trade.action = "BUY_YES" THEN b.yes_price ELSE b.no_price

RECURSIVE SumEntryCosts(_)
SumEntryCosts(trades) ==
  IF trades = <<>> THEN 0 ELSE EntryCost(trades[1]) + SumEntryCosts(Tail(trades))

\* A bracket of the last call qualifies for a trade.
SomeBracketQualifies ==
  \E i \in 1..Len(LastCall.brackets) :
    LET b == LastCall.brackets[i]
        model_prob == BracketModelProb(b, LastCall.model_forecast)
    IN  BracketYesEdge(b, model_prob) >= 5 \/ BracketNoEdge(b, model_prob) >= 5

\* C18: a returned BracketStrategy with n recommended trades has total_cost
\* = sum of entry price x 100, max_payout = 100 n and expected_roi =
\* (min(n, 2) x 100 - total_cost) / total_cost x 100, 0 when total_cost is 0;
\* no strategy is returned for fewer than 2 brackets or when no bracket
\* qualifies, and one is returned otherwise.
C18_StrategyAccounting ==
  strategy # None =>
    IF Len(LastCall.brackets) < 2 \/ ~SomeBracketQualifies
    THEN strategy[1] = None
    ELSE /\ strategy[1] # None
         /\ LET s == strategy[1][1]
                n == Len(s.recommended_trades)
                cost == SumEntryCosts(s.recommended_trades)
            IN  /\ n >= 1
                /\ s.total_cost = cost
                /\ s.max_payout = 100 * n
                /\ s.expected_roi =
                     IF cost = 0 THEN <<0, 1>>
                     ELSE Rat((Min(n, 2) * 100 - cost) * 100, cost)

\* Four legs of which exactly two qualify, both as BUY_YES.
C18_Witness ==
  /\ strategy # None
  /\ Len(LastCall.brackets) = 4
  /\ strategy[1] # None
  /\ Len(strategy[1][1].recommended_trades) = 2
  /\ \A i \in 1..2 : strategy[1][1].recommended_trades[i].action = "BUY_YES"
  /\ strategy[1][1].max_payout = 200


\* ------------------------------------------------------------------------
\* C19
\* ------------------------------------------------------------------------
\* The threshold the analyze_edge call in hand applied.
AppliedThreshold ==
  RequiredEdge(detector, analysis[1].is_sports,
               PyOr(AnalysisDays, 999) < detector.short_term_days)

BestEffectiveEdge == Max(EffectiveYesEdge, EffectiveNoEdge)

\* The reasons analyze_edge and calculate_position give for a rejection.
RejectionReasons ==
  { REASON_SUPER_BOWL, REASON_IMPLAUSIBLE, REASON_YES_ROI, REASON_NO_ROI,
    REASON_TOO_SMALL, REASON_FAIR,
    REASON_MAX_POSITIONS, REASON_MAX_CAPITAL, REASON_TOO_SMALL_POSITION }

\* C19: every NO_TRADE analysis and every should_trade = false position
\* carries a non-empty reason that matches the path that rejected: "Edge
\* too small" only when the best effective edge is positive and below the
\* required threshold, "Market fairly priced" only when no effective edge
\* is positive, and the guardrail, ROI-gate, portfolio-capacity and
\* size-shortfall rejections each their own distinct reason.
C19_ReasonMatchesRejectionPath ==
  /\ Cardinality(RejectionReasons) = 9
  /\ Analyzed /\ analysis[1].recommended_action = NO_TRADE =>
       LET reason == analysis[1].reason
           guardrail == SuperBowlMismatch \/ HighVolumeImplausible
       IN  /\ reason \in RejectionReasons
           /\ reason = REASON_SUPER_BOWL <=> SuperBowlMismatch
           /\ reason = REASON_IMPLAUSIBLE <=> ~SuperBowlMismatch /\ HighVolumeImplausible
           /\ reason \in {REASON_YES_ROI, REASON_NO_ROI} =>
                /\ ~guardrail
                /\ BestEffectiveEdge >= AppliedThreshold
                /\ PyOr(AnalysisDays, 999) < detector.short_term_days
           /\ reason = REASON_YES_ROI => EffectiveYesEdge = BestEffectiveEdge
           /\ reason = REASON_NO_ROI => EffectiveNoEdge = BestEffectiveEdge
           /\ reason = REASON_TOO_SMALL =>
                BestEffectiveEdge > 0 /\ BestEffectiveEdge < AppliedThreshold
           /\ reason = REASON_FAIR => BestEffectiveEdge <= 0
  /\ pc = "sized" /\ ~position[1].should_trade =>
       LET reason == position[1].reason
       IN  /\ reason \in RejectionReasons
           /\ ~analysis[1].meets_threshold => reason = analysis[1].reason
           /\ analysis[1].meets_threshold =>
                /\ reason = REASON_MAX_POSITIONS <=>
                     sizer.current_positions >= sizer.config.max_concurrent_positions
                /\ reason = REASON_MAX_CAPITAL <=>
                     /\ sizer.current_positions < sizer.config.max_concurrent_positions
                     /\ RLe(RInt(sizer.config.max_deployed_capital), DeployedPercent(sizer))
                /\ reason = REASON_TOO_SMALL_POSITION <=> PortfolioGate(sizer) = ""


\* ------------------------------------------------------------------------
\* C20
\* ------------------------------------------------------------------------
\* The number a 'Required threshold' text states.
StatedThreshold(text) ==
  IF text = THRESHOLD_SHORT_TERM THEN 8 ELSE 5

\* C20: the 'Required threshold' written into a trade recommendation equals
\* the threshold analyze_edge applied to that market (15 for a sports
\* market, 8 for a short-term one, 5 otherwise).
C20_ReportedThresholdIsApplied ==
  pc = "recommended" /\ recommendation[1].raised = "" =>
    StatedThreshold(recommendation[1].required_threshold) = AppliedThreshold


\* ------------------------------------------------------------------------
\* C28
\* ------------------------------------------------------------------------
\* C28: a bracket for which generate_strategy is given no model probability
\* (the model probability defaults to the bracket's own YES price) is never
\* in recommended_trades, and a group in which no bracket has an override
\* yields no strategy.
C28_NoOverrideNoTrade ==
  StrategyCalled =>
    /\ \A i \in 1..Len(LastCall.brackets) :
         LastCall.brackets[i].bracket_label \notin DOMAIN LastCall.model_forecast
           => RecommendedFor(LastCall.brackets[i].bracket_label) = None
    /\ DOMAIN LastCall.model_forecast = {} => strategy[1] = None


\* ------------------------------------------------------------------------
\* C29
\* ------------------------------------------------------------------------
\* A valid two-price market with volume > 500,000, analysed with the
\* default configuration (caps on) and model_no_prob omitted.
HighVolumeCappedCall ==
  /\ Analyzed
  /\ ValidSnapshot
  /\ detector.apply_sanity_caps
  /\ edge_call[1].model_no_prob = None
  /\ market[1].volume > 500000

\* C29: with sanity caps enabled, model_no_prob omitted and market prices
\* summing to 1, the high-volume implausibility guardrail never fires: the
\* capped probabilities give yes_edge and no_edge of at most 20 points,
\* below max_edge_high_volume (30).
C29_CapsKeepGuardrailSilent ==
  HighVolumeCappedCall =>
    /\ RawYesEdge <= 20
    /\ RawNoEdge <= 20
    /\ ~HighVolumeImplausible
    /\ analysis[1].reason # REASON_IMPLAUSIBLE

\* A forecast more than 30 points from the price of such a market, capped
\* to 20 points.
C29_Witness ==
  /\ HighVolumeCappedCall
  /\ Abs(NormalizeProb(edge_call[1].model_yes_prob) - market[1].outcome_prices[1]) > 30
  /\ analysis[1].was_capped
  /\ Max(RawYesEdge, RawNoEdge) = 20

\* ------------------------------------------------------------------------
\* The SignalGenerator on one order book, called as _scan_markets calls it:
\* calculate_fair_value, and generate_entry_signal only with a fair value.
\* ------------------------------------------------------------------------
MaxAsk == 1000

AskPrices == {p \in 0..MaxAsk : p % 50 = 0}

AskLists == {{}} \cup {{p} : p \in AskPrices} \cup {{p, 650} : p \in {300, 900}}

OrderBooks ==
  [yes_asks : AskLists, no_asks : AskLists, yes_bids : {{}}, no_bids : {{}}]

InitSignal ==
  /\ CoreIdle
  /\ TraderIdle

\* The market selector hands over a market with its order book.
ReceiveOrderBook ==
  /\ signal_args = None
  /\ \E order_book \in OrderBooks : signal_args' = Some(order_book)
  /\ UNCHANGED <<coreVars, signal_result, fetch, loopVars>>

\* bot_controller.py 141-157 / trader.py _scan_for_opportunities
EvaluateMarket ==
  /\ signal_args # None
  /\ signal_result = None
  /\ LET fair_value == calculate_fair_value(signal_args[1])
     IN  signal_result' =
           Some(IF fair_value = None THEN <<None, None>>
                ELSE <<fair_value, Some(generate_entry_signal(signal_args[1], fair_value[1]))>>)
  /\ UNCHANGED <<coreVars, signal_args, fetch, loopVars>>

NextSignal == ReceiveOrderBook \/ EvaluateMarket

SpecSignal == InitSignal /\ [][NextSignal]_vars

SignalCalled == signal_result # None /\ signal_result[1][2] # None

ReturnedSignal == signal_result[1][2][1][1]

BestAskSum == MinOf(signal_args[1].yes_asks) + MinOf(signal_args[1].no_asks)

\* C30: generate_entry_signal, given the fair value calculate_fair_value
\* derives from the same order book, returns BUY_YES or BUY_NO only if the
\* two best asks sum to less than 1, and NO_SIGNAL whenever they sum to 1
\* or more.
C30_SignalOnlyBelowParity ==
  SignalCalled =>
    /\ ReturnedSignal \in {SIGNAL_BUY_YES, SIGNAL_BUY_NO} => BestAskSum < 1000
    /\ BestAskSum >= 1000 => ReturnedSignal = NO_SIGNAL

C30_Witness ==
  /\ SignalCalled
  /\ ReturnedSignal = SIGNAL_BUY_NO
  /\ BestAskSum < 1000
  /\ Cardinality(signal_args[1].yes_asks) = 2

\* ------------------------------------------------------------------------
\* A RiskController receiving record_trade calls as days pass.
\* ------------------------------------------------------------------------
MaxTrades == 4
MaxDay == 3

\* P&L of a trade in dollars: two losses, a scratch trade and a win
TradePnls == {RInt(-5), RInt(-2), RInt(0), RInt(3)}

InitRisk ==
  /\ CoreIdle
  /\ TraderIdle

\* Midnight passes.
NextDay ==
  /\ clock < MaxDay
  /\ clock' = clock + 1
  /\ UNCHANGED <<coreVars, signalVars, fetch, risk, recorded, kind, is_running, threads, open_positions>>

\* risk_controller.record_trade(pnl) with today's date
RecordTrade(pnl) ==
  /\ Len(recorded) < MaxTrades
  /\ risk' = record_trade(risk, pnl, clock)
  /\ recorded' = Append(recorded, <<pnl, clock>>)
  /\ UNCHANGED <<coreVars, signalVars, fetch, clock, kind, is_running, threads, open_positions>>

NextRisk ==
  \/ NextDay
  \/ \E pnl \in TradePnls : RecordTrade(pnl)

SpecRisk == InitRisk /\ [][NextRisk]_vars

LatestDate == recorded[Len(recorded)][2]

\* Sum of the P&L of the trades of `trades` dated `day`
RECURSIVE PnlOfDay(_, _)
PnlOfDay(trades, day) ==
  IF trades = <<>> THEN RInt(0)
  ELSE RAdd(IF trades[1][2] = day THEN trades[1][1] ELSE RInt(0),
            PnlOfDay(Tail(trades), day))

\* Number of losing trades at the end of `trades` dated `day`, back to the
\* last non-losing trade or the day change
RECURSIVE LosingRun(_, _)
LosingRun(trades, day) ==
  IF trades = <<>> THEN 0
  ELSE LET last == trades[Len(trades)]
       IN  IF last[2] = day /\ RLt(last[1], RInt(0))
           THEN 1 + LosingRun(SubSeq(trades, 1, Len(trades) - 1), day)
           ELSE 0

\* C25: after record_trade calls with non-decreasing dates, daily_pnl is the
\* sum of the P&L of the trades recorded with the latest trade date and
\* consecutive_losses is the number of losing trades since the last
\* non-losing trade or day change.
C25_DailyFiguresCountNewDayTrade ==
  recorded # <<>> =>
    /\ risk.daily_pnl = PnlOfDay(recorded, LatestDate)
    /\ risk.consecutive_losses = LosingRun(recorded, LatestDate)

\* ------------------------------------------------------------------------
\* PolymarketAPIClient.get_all_active_markets (api_client.py).  Lists of
\* markets are kept as their lengths; the final sort only reorders.
\* ------------------------------------------------------------------------
MaxMarkets == 500
page_size == 100
\* FALLBACK_MARKETS holds three sample markets
FallbackCount == 3

\* What the API answers to one request: the number of items in the page (0
\* for a failed request or an empty answer) and how many of them are
\* non-binary or unparsable.
ApiPages ==
  {p \in [items : {0, 1, 40, page_size}, skipped : {0, 1, 2, page_size}] :
     p.skipped <= p.items}

\* get_active_markets: the markets of the page that are kept
get_active_markets(page) ==
  IF page.items = 0 THEN 0 ELSE page.items - page.skipped

MaxMarketsArguments == {2} \cup {m \in 1..MaxMarkets : m % 150 = 50}

InitFetch ==
  /\ CoreIdle
  /\ TraderIdle

\* get_all_active_markets(max_markets) up to its first request
GetAllActiveMarkets(max_markets) ==
  /\ fetch = None
  /\ fetch' = Some([max_markets |-> max_markets, all_markets |-> 0, offset |-> 0,
                    requests |-> <<>>, pc |-> "paging", fallback |-> FALSE,
                    returned |-> 0])
  /\ UNCHANGED <<coreVars, signalVars, loopVars>>

\* One turn of the while loop, with the return that follows a break or a
\* failed loop test.
RequestPage(page) ==
  /\ fetch # None
  /\ fetch[1].pc = "paging"
  /\ LET f == fetch[1]
         markets == get_active_markets(page)
         seen == Append(f.requests, [offset |-> f.offset, page |-> page])
         all_markets == f.all_markets + markets
     IN  fetch' =
           Some(IF markets = 0 /\ f.offset = 0
                THEN [f EXCEPT !.requests = seen, !.pc = "returned", !.fallback = TRUE,
                               !.returned = FallbackCount]
                ELSE IF markets = 0 \/ markets < page_size
                THEN [f EXCEPT !.requests = seen, !.all_markets = all_markets,
                               !.pc = "returned",
                               !.returned = Min(all_markets, f.max_markets)]
                ELSE IF all_markets < f.max_markets
                THEN [f EXCEPT !.requests = seen, !.all_markets = all_markets,
                               !.offset = f.offset + page_size]
                ELSE [f EXCEPT !.requests = seen, !.all_markets = all_markets,
                               !.offset = f.offset + page_size,
                               !.pc = "returned",
                               !.returned = Min(all_markets, f.max_markets)])
  /\ UNCHANGED <<coreVars, signalVars, loopVars>>

NextFetch ==
  \/ \E max_markets \in MaxMarketsArguments : GetAllActiveMarkets(max_markets)
  \/ \E page \in ApiPages : RequestPage(page)

SpecFetch == InitFetch /\ [][NextFetch]_vars

FetchReturned == fetch # None /\ fetch[1].pc = "returned"

LastRequest == fetch[1].requests[Len(fetch[1].requests)]

\* C26: get_all_active_markets requests the next page (offset + 100) until
\* the API returns a page with fewer than page_size items or max_markets
\* markets are collected, returns at most max_markets markets, does not
\* end paging because markets of a page were skipped, and returns the
\* fallback markets only when the first request yields nothing from the API.
C26_PagingStopsOnlyAtShortApiPage ==
  /\ fetch # None =>
       \A i \in 1..Len(fetch[1].requests) : fetch[1].requests[i].offset = page_size * (i - 1)
  /\ FetchReturned =>
       /\ fetch[1].returned <= fetch[1].max_markets
       /\ fetch[1].fallback => Len(fetch[1].requests) = 1 /\ LastRequest.page.items = 0
       /\ ~fetch[1].fallback =>
            \/ LastRequest.page.items < page_size
            \/ fetch[1].all_markets >= fetch[1].max_markets

\* ------------------------------------------------------------------------
\* The trading loops: AutomatedTrader.run (trader.py) and
\* BotController._run_loop (bot_controller.py) over one RiskController and
\* one PositionManager.
\* ------------------------------------------------------------------------
MaxEntries == 3

MarketIds == {"m1", "m2"}

\* Asks 0.50 / 0.30 give BUY_YES at 0.50, asks 0.10 / 0.50 give BUY_NO at
\* 0.50, asks 0.50 / 0.50 give no signal.
BookOfAsks(yes_ask, no_ask) ==
  [yes_asks |-> {yes_ask}, no_asks |-> {no_ask}, yes_bids |-> {}, no_bids |-> {}]

TradeableMarket(condition_id, order_book, end_date) ==
  [condition_id |-> condition_id, order_book |-> order_book, end_date_iso |-> end_date]

\* What market_selector.get_tradeable_markets() may return
TradeableMarkets ==
  { <<>>,
    <<TradeableMarket("m1", BookOfAsks(500, 300), None)>>,
    <<TradeableMarket("m1", BookOfAsks(500, 500), None),
      TradeableMarket("m2", BookOfAsks(100, 500), Some([day |-> 10, aware |-> TRUE]))>>,
    <<TradeableMarket("m1", BookOfAsks(500, 300), None),
      TradeableMarket("m2", BookOfAsks(100, 500), Some([day |-> 10, aware |-> TRUE]))>> }

\* What _get_order_book may return for a held market: None when the request
\* fails, else a book whose best bid on either side is absent, 0.05 or 0.55.
BookOfBids(bids) ==
  [yes_asks |-> {}, no_asks |-> {}, yes_bids |-> bids, no_bids |-> bids]

Quotes == {None} \cup {Some(BookOfBids(b)) : b \in {{}, {50}, {550}}}

\* _execute_entry: size, target, stop, open_position
ExecuteEntry(held, rc, tradeable, signal, entry_price, at) ==
  open_position(held,
    NewPosition(tradeable.condition_id, signal, entry_price,
                calculate_position_size(held, rc.current_bankroll),
                tradeable.end_date_iso, at))

\* The `for market in markets` loop of _scan_markets /
\* _scan_for_opportunities: the positions held when it ends.
RECURSIVE ScanLoop(_, _, _, _, _)
ScanLoop(held, rc, markets, at, running) ==
  IF markets = <<>> \/ ~running THEN held
  ELSE LET tradeable == Head(markets)
           fair_value == calculate_fair_value(tradeable.order_book)
       IN  IF has_position(held, tradeable.condition_id) \/ fair_value = None
           THEN ScanLoop(held, rc, Tail(markets), at, running)
           ELSE LET entry == generate_entry_signal(tradeable.order_book, fair_value[1])
                IN  IF entry[1] \in {SIGNAL_BUY_YES, SIGNAL_BUY_NO}
                    THEN LET entered == ExecuteEntry(held, rc, tradeable, entry[1], entry[2][1], at)
                         IN  IF ~can_open_position(entered, rc.current_bankroll)
                             THEN entered
                             ELSE ScanLoop(entered, rc, Tail(markets), at, running)
                    ELSE ScanLoop(held, rc, Tail(markets), at, running)

\* _scan_markets / _scan_for_opportunities
ScanFor(held, rc, markets, at, running) ==
  IF ~can_open_position(held, rc.current_bankroll) THEN held
  ELSE ScanLoop(held, rc, markets, at, running)

\* The `for position in open_positions` loop of _process_positions /
\* _process_open_positions over the snapshot `todo`:
\* [held, rc, trades] when it ends, trades being the record_trade calls made.
RECURSIVE ProcessLoop(_, _, _, _)
ProcessLoop(todo, state, quotes, at) ==
  IF todo = <<>> THEN state
  ELSE LET pos == Head(todo)
           order_book == quotes[pos.market_id]
       IN  IF order_book = None
           THEN ProcessLoop(Tail(todo), state, quotes, at)
           ELSE LET current_price == _get_current_price(order_book[1], pos.signal)
                    exit_reason == should_exit_position(pos, current_price, at)
                IN  IF exit_reason \in {"", "TypeError"}
                    THEN ProcessLoop(Tail(todo), state, quotes, at)
                    ELSE LET pnl == ClosePnl(pos, current_price)
                         IN  ProcessLoop(Tail(todo),
                               [held |-> WithoutMarket(state.held, pos.market_id),
                                rc |-> record_trade(state.rc, pnl, at),
                                trades |-> Append(state.trades, <<pnl, at>>)],
                               quotes, at)

EntriesMade == Len(recorded) + Len(open_positions)

LoopThreads == {t \in Threads : threads[t] # "unborn"}

\* AutomatedTrader().run() on the main thread
Run ==
  /\ kind = ""
  /\ kind' = "AutomatedTrader"
  /\ threads' = [threads EXCEPT ![1] = "top"]
  /\ UNCHANGED <<coreVars, signalVars, fetch, risk, recorded, clock, is_running, open_positions>>

\* BotController.start()
Start ==
  /\ kind \in {"", "BotController"}
  /\ threads[Caller] = "idle"
  /\ ~is_running
  /\ \E t \in Threads :
       /\ threads[t] = "unborn"
       /\ \A u \in Threads : u < t => threads[u] # "unborn"
       /\ threads' = [threads EXCEPT ![t] = "top"]
  /\ kind' = "BotController"
  /\ is_running' = TRUE
  /\ UNCHANGED <<coreVars, signalVars, fetch, risk, recorded, clock, open_positions>>

\* self.thread: the thread the last start() created
LastThread == CHOOSE t \in LoopThreads : \A u \in LoopThreads : u <= t

\* BotController.stop() up to its join
Stop ==
  /\ kind = "BotController"
  /\ threads[Caller] = "idle"
  /\ is_running
  /\ is_running' = FALSE
  /\ threads' = [threads EXCEPT ![Caller] = "joining"]
  /\ UNCHANGED <<coreVars, signalVars, fetch, risk, recorded, clock, kind, open_positions>>

\* self.thread.join(timeout=5) returns: the thread has ended, or five
\* seconds have passed with the thread in its 15-second sleep or in a request
JoinReturns ==
  /\ threads[Caller] = "joining"
  /\ threads[LastThread] \in {"done", "sleeping", "processing", "scanning"}
  /\ threads' = [threads EXCEPT ![Caller] = "idle"]
  /\ UNCHANGED <<coreVars, signalVars, fetch, risk, recorded, clock, kind, is_running, open_positions>>

\* The loop test and the head of an iteration, up to the decision to trade:
\* run checks the daily reset and then can_trade, _run_loop checks can_trade
\* and, when it may trade, the daily reset.
BeginIteration(t) ==
  /\ t \in Threads
  /\ threads[t] = "top"
  /\ IF kind = "BotController" /\ ~is_running
     THEN /\ threads' = [threads EXCEPT ![t] = "done"]
          /\ risk' = risk
     ELSE IF kind = "AutomatedTrader"
     THEN LET allowed == can_trade(check_daily_reset(risk, clock))
          IN  /\ risk' = allowed[2]
              /\ threads' = [threads EXCEPT ![t] = IF allowed[1] THEN "processing" ELSE "sleeping"]
     ELSE LET allowed == can_trade(risk)
          IN  /\ risk' = IF allowed[1] THEN check_daily_reset(allowed[2], clock) ELSE allowed[2]
              /\ threads' = [threads EXCEPT ![t] = IF allowed[1] THEN "processing" ELSE "sleeping"]
  /\ UNCHANGED <<coreVars, signalVars, fetch, recorded, clock, kind, is_running, open_positions>>

\* _process_positions / _process_open_positions
ProcessPositions(t, quotes) ==
  /\ t \in Threads
  /\ threads[t] = "processing"
  /\ LET done == ProcessLoop(open_positions,
                             [held |-> open_positions, rc |-> risk, trades |-> <<>>],
                             quotes, clock)
     IN  /\ open_positions' = done.held
         /\ risk' = done.rc
         /\ recorded' = recorded \o done.trades
  /\ threads' = [threads EXCEPT ![t] = "scanning"]
  /\ UNCHANGED <<coreVars, signalVars, fetch, clock, kind, is_running>>

\* _scan_markets / _scan_for_opportunities, then time.sleep begins
ScanMarkets(t, markets) ==
  /\ t \in Threads
  /\ threads[t] = "scanning"
  /\ EntriesMade >= MaxEntries => markets = <<>>
  /\ open_positions' = ScanFor(open_positions, risk, markets, clock,
                               kind = "AutomatedTrader" \/ is_running)
  /\ threads' = [threads EXCEPT ![t] = "sleeping"]
  /\ UNCHANGED <<coreVars, signalVars, fetch, risk, recorded, clock, kind, is_running>>

\* time.sleep(ORDER_BOOK_POLL_SECONDS) returns
Wake(t) ==
  /\ t \in Threads
  /\ threads[t] = "sleeping"
  /\ threads' = [threads EXCEPT ![t] = "top"]
  /\ UNCHANGED <<coreVars, signalVars, fetch, risk, recorded, clock, kind, is_running, open_positions>>

\* A step of the loop that fetched every order book it asked for
ProcessQuoted(t) ==
  \E quotes \in [MarketIds -> Quotes \ {None}] : ProcessPositions(t, quotes)

LoopStep(t) ==
  \/ BeginIteration(t)
  \/ \E quotes \in [MarketIds -> Quotes] : ProcessPositions(t, quotes)
  \/ \E markets \in TradeableMarkets : ScanMarkets(t, markets)
  \/ Wake(t)

InitTrader ==
  /\ CoreIdle
  /\ TraderIdle

\* One loop thread: AutomatedTrader.run, or a BotController started once.
NextTrader ==
  \/ Run
  \/ Start
  \/ NextDay
  \/ \E t \in Threads : LoopStep(t)

SpecTrader == InitTrader /\ [][NextTrader]_vars

\* The loop with every order-book request answered: a request that fails
\* for ever is no fault of the loop.
NextTraderQuoted ==
  \/ Run
  \/ Start
  \/ NextDay
  \/ \E t \in Threads :
       \/ BeginIteration(t)
       \/ ProcessQuoted(t)
       \/ \E markets \in TradeableMarkets : ScanMarkets(t, markets)
       \/ Wake(t)

\* A loop thread moves on from where it is.  Every step of the loop changes
\* the thread's position and nothing else does, so this is the loop's step
\* told by the position alone.
Advance(t) ==
  /\ threads[t] \in {"top", "processing", "scanning", "sleeping"}
  /\ \E to \in {"top", "processing", "scanning", "sleeping", "done"} :
       /\ to # threads[t]
       /\ threads' = [threads EXCEPT ![t] = to]

\* The loop thread keeps being scheduled and its sleep returns; time passes.
FairTrader ==
  /\ \A t \in Threads : WF_threads(Advance(t))
  /\ WF_vars(NextDay)

SpecTraderFair == InitTrader /\ [][NextTraderQuoted]_vars /\ FairTrader

\* A BotController under start() and stop() calls.
NextThreads ==
  \/ Start
  \/ Stop
  \/ JoinReturns
  \/ \E t \in Threads : LoopStep(t)

SpecThreads == InitTrader /\ [][NextThreads]_vars

\* A loss limit of RiskController.can_trade is reached.
LimitReached ==
  \/ risk.consecutive_losses >= MAX_CONSECUTIVE_LOSSES
  \/ DailyLossReached(risk)

\* The step opens a position on a market that held none.
EntryMade ==
  \E i \in 1..Len(open_positions') :
    ~has_position(open_positions, open_positions'[i].market_id)

\* C21: once consecutive_losses has reached MAX_CONSECUTIVE_LOSSES or the
\* day's loss has reached DAILY_MAX_LOSS_PCT of the day's starting bankroll,
\* no position is opened until the limit is reset, not even later in the
\* iteration in which the exit that reached the limit was recorded.
C21_NoEntryOnceLimitReached == [][EntryMade => ~LimitReached]_vars

\* The loop threads that are processing positions or scanning markets
Working == {t \in Threads : threads[t] \in {"processing", "scanning"}}

\* C22: at any time at most one _run_loop thread of a BotController is
\* processing positions or scanning markets, for every interleaving of
\* start() and stop() calls with the loop.
C22_OneLoopThread == Cardinality(Working) <= 1

\* Trading is halted by the daily loss limit.
HaltedByDailyLimit ==
  /\ risk.trading_halted
  /\ Contains(Lower(risk.halt_reason[1]), DAILY_LOSS_LIMIT)

\* The current date is later than the last trade date.
NewDay == risk.last_trade_date # None /\ clock > risk.last_trade_date[1]

\* C23: a halt caused by the daily loss limit is eventually lifted in both
\* loops once the current date is later than the last trade date.
C23_DailyHaltLifted == (HaltedByDailyLimit /\ NewDay) ~> ~risk.trading_halted

\* The same for AutomatedTrader.run alone, which checks the daily reset
\* before can_trade.
C23_LiftedInRun ==
  (kind = "AutomatedTrader" /\ HaltedByDailyLimit /\ NewDay) ~> ~risk.trading_halted

\* A position is due for an exit by the clock: POSITION_TIMEOUT_HOURS have
\* passed since its entry.
TimedOut(market_id) ==
  \E i \in 1..Len(open_positions) :
    /\ open_positions[i].market_id = market_id
    /\ 24 * (clock - open_positions[i].entry_time) >= POSITION_TIMEOUT_HOURS

\* C24: every open position that reaches its target or stop price or exceeds
\* POSITION_TIMEOUT_HOURS is closed by the loop in a later iteration, also
\* while trading is halted.  Stated for the timeout, which no later price
\* can undo.
C24_DuePositionClosed ==
  \A market_id \in MarketIds :
    TimedOut(market_id) ~> ~has_position(open_positions, market_id)

\* The step opens exactly one position, the last of open_positions'.
OneEntry ==
  /\ Len(open_positions') = Len(open_positions) + 1
  /\ SubSeq(open_positions', 1, Len(open_positions)) = open_positions

NewestPosition == open_positions'[Len(open_positions')]

\* The limits every entry keeps: deployed capital including the new position
\* within MAX_DEPLOYED_PCT of the bankroll, and the position's size
\* min(MAX_POSITION_SIZE_PCT x bankroll, remaining deployable capital) > 0
EntryWithinLimits ==
  LET bankroll == risk.current_bankroll
      max_deployed == QMul(bankroll, MAX_DEPLOYED_PCT)
      remaining == QSub(max_deployed, get_deployed_capital(open_positions))
  IN  /\ OneEntry
      /\ QLe(get_deployed_capital(open_positions'), max_deployed)
      /\ NewestPosition.position_size = QMin(QMul(bankroll, MAX_POSITION_SIZE_PCT), remaining)
      /\ QLt(RInt(0), NewestPosition.position_size)

PositionLimitsKept ==
  /\ Len(open_positions) <= MAX_CONCURRENT_POSITIONS
  /\ \A i, j \in 1..Len(open_positions) :
       open_positions[i].market_id = open_positions[j].market_id => i = j

\* C27: run by a single loop thread, the open positions never exceed
\* MAX_CONCURRENT_POSITIONS, no market holds more than one open position,
\* and at each entry the deployed capital including the new position is
\* within MAX_DEPLOYED_PCT x bankroll, the new position's size being
\* min(MAX_POSITION_SIZE_PCT x bankroll, remaining deployable capital) > 0.
C27_PositionLimits ==
  /\ []PositionLimitsKept
  /\ [][open_positions' # open_positions /\ Len(open_positions') >= Len(open_positions)
          => EntryWithinLimits]_vars

\* A position entered after two exits, sized from the bankroll they left
C27_Witness ==
  /\ Len(recorded) = 2
  /\ Len(open_positions) = 1
  /\ open_positions[1].market_id = "m2"
  /\ open_positions[1].position_size = QMul(risk.current_bankroll, MAX_POSITION_SIZE_PCT)
  /\ risk.current_bankroll # RInt(INITIAL_BANKROLL)

====
